---------------------------- MODULE Spec2Model ----------------------------
(***************************************************************************)
(* A model of the spyscraper pipeline (src/ci): crawl.py, fetch.py,         *)
(* score.py, trim.py, evidence.py and summarize_xlsx_openai.py.             *)
(*                                                                           *)
(* Strings are sequences of tokens.  A token is a short run of characters   *)
(* ("https", "example", "/", ...).  Every literal the code compares against *)
(* ("http://", "https://", "www.", "/", "." + base, ':', '//', '?', '#',     *)
(* '[', ']') is a whole number of tokens, and every character the code cuts *)
(* off (url[:-1], strip()) is a one-character token, so prefix, suffix,     *)
(* find and slice on tokens agree with the same operations on characters.   *)
(*                                                                           *)
(* A function of the code is written as a chain of operators, each handing  *)
(* the values computed so far to the next one as arguments.                 *)
(***************************************************************************)
EXTENDS Integers, Sequences, FiniteSets, TLC

VARIABLES
    \* ---- crawl_site (src/ci/crawl.py:101-213) ----
    start_url,          \* canonicalized seed (line 120)
    allowed_base,       \* line 121
    include_subdomains, \* parameter
    max_pages,          \* parameter
    q,                  \* deque, line 123
    seen,               \* line 124
    edges,              \* line 125
    stats,              \* lines 127-134 (the counters)
    pages,              \* pages.jsonl: the records written at line 169
    out,                \* edges.csv and summary.json as written at 189-209
    pc,                 \* position of crawl_site
    fetchLog,           \* history: the calls of fetch_record made at line 164
    sleepLog,           \* history: per time.sleep(delay) of line 185, the calls made before it
    \* ---- canonicalize as a pure function ----
    cu, cr1, cr2, cstage,
    \* ---- fetch_record as a pure function ----
    fin, fout, fstage,
    \* ---- one call of a pure function: its name, arguments and result ----
    fn, args, ret, returned,
    \* ---- build_snippets and build_evidence_packs ----
    pages_jsonl,        \* the lines of pages.jsonl read by build_snippets
    top_k,              \* parameter of build_snippets
    clock,              \* age in days the clock gives a dated URL
    pages_scored,       \* pages_scored.jsonl
    snippets,           \* snippets.jsonl
    keep_urls,          \* keep_urls.txt
    evidence_packs,     \* evidence_packs.jsonl
    tpc,                \* "trim", "pack", "done"
    \* ---- call_openai_with_retries ----
    retries,            \* parameter
    script,             \* the answers of the service, call by call
    attempt,            \* the loop variable (line 106)
    backoff,            \* line 103
    sleeps,             \* history: the arguments of time.sleep
    callLog,            \* history: the answers call_openai gave
    rout,               \* what the function has returned or raised
    \* ---- summarize_xlsx ----
    workers,            \* parameter
    save_every,         \* parameter
    start_row,          \* parameter
    ws,                 \* the sheet of the workbook in memory (line 266)
    disk,               \* the sheet of the document at out_path
    jobs,               \* line 268
    futures,            \* the state of each job: "none", "pending",
                        \* "running", "ok", "failed"
    inflight,           \* line 326 (the jobs by their index in `jobs`)
    idx,                \* line 317
    completed,          \* line 283
    wbLog,              \* history: the accesses to the workbook, by thread
    runLog,             \* history: the jobs in the order summarize_row began
    bpc                 \* position of summarize_xlsx

crawlVars == <<start_url, allowed_base, include_subdomains, max_pages, q, seen,
               edges, stats, pages, out, pc, fetchLog, sleepLog>>
canonVars == <<cu, cr1, cr2, cstage>>
fetchVars == <<fin, fout, fstage>>
unitVars == <<fn, args, ret, returned>>
\* the variables of the stages after the crawl
trimVars == <<pages_jsonl, top_k, clock, pages_scored, snippets, keep_urls,
              evidence_packs, tpc>>
retryVars == <<retries, script, attempt, backoff, sleeps, callLog, rout>>
batchVars == <<workers, save_every, start_row, ws, disk, jobs, futures,
               inflight, idx, completed, wbLog, runLog, bpc>>
stageVars == <<trimVars, retryVars, batchVars>>
laterVars == <<unitVars, stageVars>>
vars == <<crawlVars, canonVars, fetchVars, laterVars>>

----------------------------------------------------------------------------
(* Bounds of the model.                                                     *)

\* longest token sequence appended to a scheme prefix in the canonicalize inputs
MaxBody == 4
\* largest page budget (max_pages) tried
MaxPages == 5

----------------------------------------------------------------------------
(* String helpers (Python str methods on token sequences).                  *)

StartsWith(s, p) ==
    /\ Len(p) <= Len(s)
    /\ SubSeq(s, 1, Len(p)) = p

EndsWith(s, p) ==
    /\ Len(p) <= Len(s)
    /\ SubSeq(s, Len(s) - Len(p) + 1, Len(s)) = p

Contains(s, t) == \E i \in 1..Len(s) : s[i] = t

\* str.find for a set of one-character tokens, from position `from`;
\* Len(s) + 1 when there is none
FindFrom(s, toks, from) ==
    IF \E i \in from..Len(s) : s[i] \in toks
    THEN CHOOSE i \in from..Len(s) :
            /\ s[i] \in toks
            /\ \A j \in from..(i - 1) : s[j] \notin toks
    ELSE Len(s) + 1

\* what str.strip() and the regular expression \s take for whitespace
Whitespace == {" ", "\n", "\r", "\t"}

RECURSIVE LStrip(_)
LStrip(s) ==
    IF s # <<>> /\ Head(s) \in Whitespace THEN LStrip(Tail(s)) ELSE s

RECURSIVE RStrip(_)
RStrip(s) ==
    IF s # <<>> /\ s[Len(s)] \in Whitespace
    THEN RStrip(SubSeq(s, 1, Len(s) - 1))
    ELSE s

Strip(s) == LStrip(RStrip(s))

LowerTok(t) ==
    CASE t = "WWW" -> "www"
      [] t = "EXAMPLE" -> "example"
      [] t = "API" -> "api"
      [] t = "Kafka" -> "kafka"
      [] OTHER -> t

Lower(s) == [i \in 1..Len(s) |-> LowerTok(s[i])]

\* tokens made of ASCII letters
AlphaToks == {"http", "https", "a", "foo", "www", "WWW", "example", "EXAMPLE",
              "com", "other", "sub", "not", "product", "landing"}
\* urllib.parse.scheme_chars: letters, digits, "+", "-", "."
SchemeToks == AlphaToks \cup {"."}

HTTP == <<"http", ":", "/", "/">>
HTTPS == <<"https", ":", "/", "/">>

\* The result of a call that may raise: [ok |-> TRUE, val |-> v] or Raised.
Raised == [ok |-> FALSE, val |-> <<>>]
Ok(v) == [ok |-> TRUE, val |-> v]

----------------------------------------------------------------------------
(* urllib.parse.urlparse, as canonicalize and crawl_site call it.  The      *)
(* standard library is not part of the repository; this follows CPython's   *)
(* urlsplit: strip leading spaces, split off a scheme, split off a netloc   *)
(* after "//" up to the first of "/?#", reject a netloc with an unmatched   *)
(* bracket (ValueError "Invalid IPv6 URL"; ok = FALSE), then split fragment *)
(* and query.  The alphabet has no ";", so the params are always empty.     *)

\* rest is the URL after the netloc and before the fragment, k where its "?" is
ParseResult(scheme, netloc, rest, fragment, k) ==
    [ok |-> ~(Contains(netloc, "[") # Contains(netloc, "]")),
     scheme |-> scheme,
     netloc |-> netloc,
     path |-> SubSeq(rest, 1, k - 1),
     query |-> SubSeq(rest, k + 1, Len(rest)),
     fragment |-> fragment]

\* u2 is the URL after the netloc, h where its "#" is
SplitFragment(scheme, netloc, u2, h) ==
    ParseResult(scheme, netloc, SubSeq(u2, 1, h - 1), SubSeq(u2, h + 1, Len(u2)),
                FindFrom(SubSeq(u2, 1, h - 1), {"?"}, 1))

\* u1 is the URL after the scheme, delim where its netloc would end
SplitNetloc(scheme, u1, delim) ==
    IF StartsWith(u1, <<"/", "/">>)
    THEN SplitFragment(scheme, SubSeq(u1, 3, delim - 1), SubSeq(u1, delim, Len(u1)),
                       FindFrom(SubSeq(u1, delim, Len(u1)), {"#"}, 1))
    ELSE SplitFragment(scheme, <<>>, u1, FindFrom(u1, {"#"}, 1))

\* u0 is the URL, i where its first ":" is
SplitScheme(u0, i) ==
    IF /\ i > 1
       /\ i <= Len(u0)
       /\ u0[1] \in AlphaToks
       /\ \A k \in 1..(i - 1) : u0[k] \in SchemeToks
    THEN SplitNetloc(Lower(SubSeq(u0, 1, i - 1)), SubSeq(u0, i + 1, Len(u0)),
                     FindFrom(SubSeq(u0, i + 1, Len(u0)), {"/", "?", "#"}, 3))
    ELSE SplitNetloc(<<>>, u0, FindFrom(u0, {"/", "?", "#"}, 3))

urlparse(url) == SplitScheme(LStrip(url), FindFrom(LStrip(url), {":"}, 1))

----------------------------------------------------------------------------
(* URL + domain helpers, src/ci/crawl.py:22-47.                             *)

\* lines 24-25
WithScheme(s) ==
    IF StartsWith(s, HTTP) \/ StartsWith(s, HTTPS) THEN s ELSE HTTPS \o s

\* lines 29-30
StripSlash(url, path) ==
    IF EndsWith(url, <<"/">>) /\ path # <<"/">>
    THEN SubSeq(url, 1, Len(url) - 1)
    ELSE url

\* the bug of rebuilding the URL with its query
Rebuild_KeepQuery(p) ==
    IF ~p.ok THEN Raised
    ELSE Ok(StripSlash(p.scheme \o <<":", "/", "/">> \o p.netloc \o p.path
                         \o (IF p.query # <<>> THEN <<"?">> \o p.query ELSE <<>>),
                       p.path))

\* lines 27-30, p the result of urlparse
Rebuild(p) ==
    IF ~p.ok THEN Raised
    ELSE Ok(StripSlash(p.scheme \o <<":", "/", "/">> \o p.netloc \o p.path, p.path))

canonicalize(url) == Rebuild(urlparse(WithScheme(Strip(url))))

base_domain(netloc) ==
    IF StartsWith(Lower(netloc), <<"www", ".">>)
    THEN SubSeq(Lower(netloc), 3, Len(netloc))
    ELSE Lower(netloc)

\* the bug of matching any suffix, not a suffix after a dot
allowed_netloc_NoDot(netloc, base, subdomains) ==
    \/ base_domain(netloc) = base
    \/ subdomains /\ EndsWith(base_domain(netloc), base)

allowed_netloc(netloc, base, subdomains) ==
    \/ base_domain(netloc) = base
    \/ subdomains /\ EndsWith(base_domain(netloc), <<".">> \o base)

----------------------------------------------------------------------------
(* Ordering of strings (Python compares str by code point), for sorted().   *)

TokChars(t) ==
    CASE t = "http" -> <<104, 116, 116, 112>>
      [] t = "https" -> <<104, 116, 116, 112, 115>>
      [] t = "a" -> <<97>>
      [] t = "foo" -> <<102, 111, 111>>
      [] t = "www" -> <<119, 119, 119>>
      [] t = "WWW" -> <<87, 87, 87>>
      [] t = "example" -> <<101, 120, 97, 109, 112, 108, 101>>
      [] t = "EXAMPLE" -> <<69, 88, 65, 77, 80, 76, 69>>
      [] t = "com" -> <<99, 111, 109>>
      [] t = "other" -> <<111, 116, 104, 101, 114>>
      [] t = "sub" -> <<115, 117, 98>>
      [] t = "not" -> <<110, 111, 116>>
      [] t = "product" -> <<112, 114, 111, 100, 117, 99, 116>>
      [] t = "landing" -> <<108, 97, 110, 100, 105, 110, 103>>
      [] t = "." -> <<46>>
      [] t = ":" -> <<58>>
      [] t = "/" -> <<47>>
      [] t = "?" -> <<63>>
      [] t = "#" -> <<35>>
      [] t = "[" -> <<91>>
      [] t = "]" -> <<93>>
      [] t = " " -> <<32>>
      [] t = "-" -> <<45>>
      [] t = "blog" -> <<98, 108, 111, 103>>
      [] t = "ger" -> <<103, 101, 114>>
      [] t = "news" -> <<110, 101, 119, 115>>
      [] t = "post" -> <<112, 111, 115, 116>>
      [] t = "2024" -> <<50, 48, 50, 52>>
      [] t = "01" -> <<48, 49>>
      [] t = "13" -> <<49, 51>>
      [] t = "15" -> <<49, 53>>

RECURSIVE Chars(_)
Chars(s) == IF s = <<>> THEN <<>> ELSE TokChars(Head(s)) \o Chars(Tail(s))

RECURSIVE CodesLess(_, _)
CodesLess(a, b) ==
    IF a = <<>> THEN b # <<>>
    ELSE IF b = <<>> THEN FALSE
    ELSE IF Head(a) # Head(b) THEN Head(a) < Head(b)
    ELSE CodesLess(Tail(a), Tail(b))

StrLess(a, b) == CodesLess(Chars(a), Chars(b))

\* tuple comparison of (source, target) pairs
EdgeLess(e, f) == StrLess(e[1], f[1]) \/ (e[1] = f[1] /\ StrLess(e[2], f[2]))

MinEdge(es) == CHOOSE e \in es : \A f \in es \ {e} : EdgeLess(e, f)

RECURSIVE SortedEdges(_)
SortedEdges(es) ==
    IF es = {} THEN <<>>
    ELSE <<MinEdge(es)>> \o SortedEdges(es \ {MinEdge(es)})

----------------------------------------------------------------------------
(* src/ci/fetch.py.  A text is [src, len]: which extraction produced it and *)
(* how many characters it has; the empty string is the only text of length  *)
(* 0.  What the network and the browser answer is an input of the model;    *)
(* trafilatura's extraction cascades are outside the repository and give    *)
(* the texts of the answer.                                                 *)

TextEmpty == [src |-> "none", len |-> 0]
Text(src, n) == IF n = 0 THEN TextEmpty ELSE [src |-> src, len |-> n]

\* "dedupe preserving order", lines 44-51 and 193-201
RECURSIVE Dedupe(_, _)
Dedupe(us, have) ==
    IF us = <<>> THEN <<>>
    ELSE IF Head(us) \in have THEN Dedupe(Tail(us), have)
    ELSE <<Head(us)>> \o Dedupe(Tail(us), have \cup {Head(us)})

\* urllib.parse.urlunparse of a parse result without its fragment
UsesNetloc == {<<"http">>, <<"https">>}

AddNetloc(p) ==
    IF p.netloc # <<>> \/ (p.scheme \in UsesNetloc /\ ~StartsWith(p.path, <<"/", "/">>))
    THEN <<"/", "/">> \o p.netloc \o p.path
    ELSE p.path

AddScheme(u, scheme) == IF scheme # <<>> THEN scheme \o <<":">> \o u ELSE u

AddQuery(u, query) == IF query # <<>> THEN u \o <<"?">> \o query ELSE u

urlunparse(p) == AddQuery(AddScheme(AddNetloc(p), p.scheme), p.query)

Unfrag(p) == IF ~p.ok THEN Raised ELSE Ok(urlunparse(p))

\* urllib.parse.urldefrag(u)[0]; it parses only a URL that holds a "#"
urldefrag(u) == IF ~Contains(u, "#") THEN Ok(u) ELSE Unfrag(urlparse(u))

Cons(d, rest) ==
    IF ~d.ok \/ ~rest.ok THEN Raised ELSE Ok(<<d.val>> \o rest.val)

\* urldefrag over a list of links; raises when one of them does
RECURSIVE DefragAll(_)
DefragAll(us) ==
    IF us = <<>> THEN Ok(<<>>)
    ELSE Cons(urldefrag(Head(us)), DefragAll(Tail(us)))

DropEmpty(us) == SelectSeq(us, LAMBDA u : u # <<>>)

\* needs_browser's default thresholds
MinLinks == 10
MinTextChars == 800

\* the bug of asking for both signs of a thin page
needs_browser_Both(r, min_links, min_text_chars) ==
    /\ r.links_count < min_links
    /\ r.text_md.len < min_text_chars

needs_browser(r, min_links, min_text_chars) ==
    \/ r.links_count < min_links
    \/ r.text_md.len < min_text_chars

\* lines 162-171
HttpResult(resp, links) ==
    [url |-> resp.final,
     status |-> resp.status,
     content_type |-> IF resp.is_html THEN "text/html" ELSE "other",
     text |-> IF resp.is_html THEN resp.text ELSE TextEmpty,
     text_md |-> IF resp.is_html THEN resp.text_md ELSE TextEmpty,
     links |-> links,
     links_count |-> Len(links)]

\* _extract_links, lines 33-51, d the defragged links
HttpHtml(resp, d) ==
    IF ~d.ok THEN Raised ELSE Ok(HttpResult(resp, Dedupe(d.val, {})))

\* fetch_http(url) when the site answers `resp`:
\*   [err, status, final, is_html, hrefs, text, text_md]
\* err is a network error or timeout; hrefs are the anchors' targets after urljoin.
fetch_http(url, resp) ==
    IF resp.err \/ resp.status >= 400 THEN Raised
    ELSE IF ~resp.is_html THEN Ok(HttpResult(resp, <<>>))
    ELSE HttpHtml(resp, DefragAll(resp.hrefs))

\* lines 192-212, d the defragged links
RenderedResult(url, rend, d) ==
    IF ~d.ok THEN Raised
    ELSE Ok([url |-> url,
             status |-> 200,
             content_type |-> "text/html (rendered)",
             text |-> rend.text,
             text_md |-> rend.text_md,
             links |-> Dedupe(d.val, {}),
             links_count |-> Len(Dedupe(d.val, {}))])

\* fetch_rendered(url, browser) when the browser gives `rend`:
\*   [err, hrefs, text, text_md]
fetch_rendered(url, rend) ==
    IF rend.err THEN Raised
    ELSE RenderedResult(url, rend, DefragAll(DropEmpty(rend.hrefs)))

----------------------------------------------------------------------------
(* fetch_record, src/ci/crawl.py:50-77.  `browser` is TRUE when a browser   *)
(* is supplied.  The result carries the fetches it attempted, in order.     *)

NoRec == <<>>

FetchRaised(calls) == [ok |-> FALSE, rec |-> NoRec, calls |-> calls]

\* lines 64-77, text being rec["text"] after line 69
RecWithText(url, r, final_url, text) ==
    [url |-> url,
     final_url |-> final_url,
     status |-> r.status,
     content_type |-> r.content_type,
     text |-> text,
     text_md |-> r.text_md,
     text_len |-> text.len,
     text_plain |-> IF text.len > 0 THEN text ELSE TextEmpty,
     links |-> r.links,
     links_count |-> r.links_count]

\* line 69: rec.get("text_md") or rec.get("text") or ""
TextOr(text_md, text) ==
    IF text_md.len > 0 THEN text_md
    ELSE IF text.len > 0 THEN text
    ELSE TextEmpty

BuildRec(url, r, final_url) == RecWithText(url, r, final_url, TextOr(r.text_md, r.text))

\* line 67, final_url the result of canonicalize(r.url)
WithFinalUrl(url, r, final_url, calls) ==
    IF ~final_url.ok THEN FetchRaised(calls)
    ELSE [ok |-> TRUE, rec |-> BuildRec(url, r, final_url.val), calls |-> calls]

MakeRec(url, r, calls) == WithFinalUrl(url, r, canonicalize(r.url), calls)

\* the bug of letting a rendered-fetch failure escape
AfterRendered_Propagate(url, plain, rendered) ==
    IF ~rendered.ok THEN FetchRaised(<<"fetch_http", "fetch_rendered">>)
    ELSE MakeRec(url, rendered.val, <<"fetch_http", "fetch_rendered">>)

\* lines 58-62, plain the FetchResult of fetch_http, rendered the outcome of
\* fetch_rendered
AfterRendered(url, plain, rendered) ==
    MakeRec(url, IF rendered.ok THEN rendered.val ELSE plain,
            <<"fetch_http", "fetch_rendered">>)

\* lines 57-77, plain the outcome of fetch_http
AfterHttp(url, browser, plain, rend) ==
    IF ~plain.ok THEN FetchRaised(<<"fetch_http">>)
    ELSE IF browser /\ needs_browser(plain.val, MinLinks, MinTextChars)
    THEN AfterRendered(url, plain.val, fetch_rendered(url, rend))
    ELSE MakeRec(url, plain.val, <<"fetch_http">>)

fetch_record(url, browser, resp, rend) ==
    AfterHttp(url, browser, fetch_http(url, resp), rend)

----------------------------------------------------------------------------
(* Values of the variables a specification does not use.                    *)

CrawlIdle ==
    /\ start_url = <<>>
    /\ allowed_base = <<>>
    /\ include_subdomains = FALSE
    /\ max_pages = 0
    /\ q = <<>>
    /\ seen = {}
    /\ edges = {}
    /\ stats = <<>>
    /\ pages = <<>>
    /\ out = <<>>
    /\ pc = "idle"
    /\ fetchLog = <<>>
    /\ sleepLog = <<>>

CanonIdle ==
    /\ cu = <<>>
    /\ cr1 = Raised
    /\ cr2 = Raised
    /\ cstage = "idle"

FetchIdle ==
    /\ fin = <<>>
    /\ fout = <<>>
    /\ fstage = "idle"

UnitIdle ==
    /\ fn = "idle"
    /\ args = <<>>
    /\ ret = <<>>
    /\ returned = FALSE

TrimIdle ==
    /\ pages_jsonl = <<>>
    /\ top_k = 0
    /\ clock = 0
    /\ pages_scored = <<>>
    /\ snippets = <<>>
    /\ keep_urls = <<>>
    /\ evidence_packs = <<>>
    /\ tpc = "idle"

RetryIdle ==
    /\ retries = 0
    /\ script = <<>>
    /\ attempt = 0
    /\ backoff = 0
    /\ sleeps = <<>>
    /\ callLog = <<>>
    /\ rout = <<>>

BatchIdle ==
    /\ workers = 0
    /\ save_every = 0
    /\ start_row = 0
    /\ ws = <<>>
    /\ disk = <<>>
    /\ jobs = <<>>
    /\ futures = <<>>
    /\ inflight = <<>>
    /\ idx = 0
    /\ completed = 0
    /\ wbLog = <<>>
    /\ runLog = <<>>
    /\ bpc = "idle"

StagesIdle ==
    /\ TrimIdle
    /\ RetryIdle
    /\ BatchIdle

LaterIdle ==
    /\ UnitIdle
    /\ StagesIdle

----------------------------------------------------------------------------
(* The sites crawled: URLs, and what the network and the browser answer.    *)

ExampleCom == <<"example", ".", "com">>
L_root == HTTPS \o ExampleCom \o <<"/">>
L_product == HTTPS \o ExampleCom \o <<"/", "product">>
L_productSlash == L_product \o <<"/">>
L_productDbl == L_product \o <<"/", "/">>
L_productFrag == L_product \o <<"#", "a">>
L_other == HTTPS \o <<"other", ".", "com", "/">>
L_landing == HTTPS \o <<"other", ".", "com", "/", "landing">>
L_sub == HTTPS \o <<"sub", ".">> \o ExampleCom \o <<"/">>
L_www == HTTPS \o <<"WWW", ".">> \o ExampleCom \o <<"/", "product", "?", "a">>
L_not == HTTPS \o <<"not">> \o ExampleCom \o <<"/">>
L_bad == <<"foo", ":", "[", "a">>
L_blog == HTTPS \o ExampleCom \o <<"/", "blog">>

Links == {L_root, L_product, L_productSlash, L_productDbl, L_productFrag, L_other,
          L_landing, L_sub, L_www, L_not, L_bad, L_blog}

\* start_url arguments: a full URL, a bare www host, the empty string
Seeds == {L_root, <<"www", ".">> \o ExampleCom, <<>>}

PageText == Text("plain", 900)
PageMd == Text("md", 900)

HtmlPage(final, hrefs) ==
    [err |-> FALSE, status |-> 200, final |-> final, is_html |-> TRUE,
     hrefs |-> hrefs, text |-> PageText, text_md |-> PageMd]

NetworkError(url) ==
    [err |-> TRUE, status |-> 0, final |-> url, is_html |-> FALSE,
     hrefs |-> <<>>, text |-> TextEmpty, text_md |-> TextEmpty]

NotFound(url) ==
    [err |-> FALSE, status |-> 404, final |-> url, is_html |-> TRUE,
     hrefs |-> <<>>, text |-> TextEmpty, text_md |-> TextEmpty]

\* what a GET of url may answer: a failure, a page without links, the home
\* page of the scenario, a redirect to the URL with a slash, a redirect off
\* the site, a page with a malformed link; the home page may also be a
\* page whose first link is written with a doubled slash, and the subdomain's
\* page a page with one link
Responses(url) ==
    { NetworkError(url),
      NotFound(url),
      HtmlPage(url, <<>>),
      HtmlPage(url, <<L_product, L_other>>),
      HtmlPage(url \o <<"/">>, <<L_productSlash, L_productDbl, L_root>>),
      HtmlPage(L_landing, <<L_sub, L_www>>),
      HtmlPage(url, <<L_other, L_not, L_bad>>) }
    \cup (IF url = L_root THEN { HtmlPage(url, <<L_productDbl, L_sub>>) } ELSE {})
    \cup (IF url = L_sub THEN { HtmlPage(url, <<L_blog>>) } ELSE {})

RenderFailed ==
    [err |-> TRUE, hrefs |-> <<>>, text |-> TextEmpty, text_md |-> TextEmpty]

\* what rendering url in the browser may give
Renderings(url) ==
    { RenderFailed,
      [err |-> FALSE, hrefs |-> <<L_productFrag, <<>>, L_product, L_sub>>,
       text |-> PageText, text_md |-> PageMd] }

----------------------------------------------------------------------------
(* crawl_site, src/ci/crawl.py:101-213.                                     *)

NoFile == <<>>

\* line 141
LoopCond_OffByOne(queue, st, budget) == queue # <<>> /\ st.pages_fetched <= budget
LoopCond(queue, st, budget) == queue # <<>> /\ st.pages_fetched < budget

\* line 161
MarkSeen_Forget(s, url) == s
MarkSeen(s, url) == s \cup {url}

\* lines 175-177
LinkAllowed_Any(tgt, base, subdomains) == TRUE
LinkAllowed(tgt, base, subdomains) ==
    allowed_netloc(urlparse(tgt).netloc, base, subdomains)

\* lines 173-182: the loop over rec["links"]; acc is
\* [raised, edges, q, skipped_external]; the loop is left at the first link
\* whose canonicalize (line 174) or urlparse (line 176) raises
RECURSIVE ProcessLinks(_, _, _, _, _, _)
RECURSIVE LinkStep(_, _, _, _, _, _, _)
\* the bug of recording the edge before the host is checked
LinkStep_EdgeFirst(links, src, seenNow, base, subdomains, acc, c) ==
    IF ~c.ok \/ ~urlparse(c.val).ok
    THEN [acc EXCEPT !.raised = TRUE]
    ELSE IF ~LinkAllowed(c.val, base, subdomains)
    THEN ProcessLinks(Tail(links), src, seenNow, base, subdomains,
            [acc EXCEPT !.edges = @ \cup {<<src, c.val>>},
                        !.skipped_external = @ + 1])
    ELSE ProcessLinks(Tail(links), src, seenNow, base, subdomains,
            [acc EXCEPT !.edges = @ \cup {<<src, c.val>>},
                        !.q = IF c.val \notin seenNow THEN Append(@, c.val) ELSE @])

LinkStep(links, src, seenNow, base, subdomains, acc, c) ==
    IF ~c.ok \/ ~urlparse(c.val).ok
    THEN [acc EXCEPT !.raised = TRUE]
    ELSE IF ~LinkAllowed(c.val, base, subdomains)
    THEN ProcessLinks(Tail(links), src, seenNow, base, subdomains,
            [acc EXCEPT !.skipped_external = @ + 1])
    ELSE ProcessLinks(Tail(links), src, seenNow, base, subdomains,
            [acc EXCEPT !.edges = @ \cup {<<src, c.val>>},
                        !.q = IF c.val \notin seenNow THEN Append(@, c.val) ELSE @])

ProcessLinks(links, src, seenNow, base, subdomains, acc) ==
    IF links = <<>> THEN acc
    ELSE LinkStep(links, src, seenNow, base, subdomains, acc,
                  canonicalize(Head(links)))

\* lines 120-134, for the arguments (start_url, max_pages, include_subdomains)
CrawlInit ==
    /\ \E s \in Seeds :
          /\ canonicalize(s).ok
          /\ start_url = canonicalize(s).val
    /\ allowed_base = base_domain(urlparse(start_url).netloc)
    /\ include_subdomains \in BOOLEAN
    /\ max_pages \in (-1)..MaxPages
    /\ q = <<start_url>>
    /\ seen = {}
    /\ edges = {}
    /\ stats = [pages_fetched |-> 0, edges |-> 0, skipped_external |-> 0,
                skipped_seen |-> 0, errors |-> 0]
    /\ pages = <<>>
    /\ out = NoFile
    /\ pc = "loop"
    /\ fetchLog = <<>>
    /\ sleepLog = <<>>
    /\ CanonIdle
    /\ FetchIdle
    /\ LaterIdle

\* line 149; canonicalize does not raise on a URL it returned
Url == canonicalize(Head(q)).val

\* lines 151-153
SkipSeen ==
    /\ pc = "loop"
    /\ LoopCond(q, stats, max_pages)
    /\ canonicalize(Head(q)).ok
    /\ Url \in seen
    /\ q' = Tail(q)
    /\ stats' = [stats EXCEPT !.skipped_seen = @ + 1]
    /\ UNCHANGED <<start_url, allowed_base, include_subdomains, max_pages, seen,
                   edges, pages, out, pc, fetchLog, sleepLog, canonVars, fetchVars,
                   laterVars>>

\* lines 155-159
SkipExternal ==
    /\ pc = "loop"
    /\ LoopCond(q, stats, max_pages)
    /\ canonicalize(Head(q)).ok
    /\ Url \notin seen
    /\ ~allowed_netloc(urlparse(Url).netloc, allowed_base, include_subdomains)
    /\ q' = Tail(q)
    /\ stats' = [stats EXCEPT !.skipped_external = @ + 1]
    /\ UNCHANGED <<start_url, allowed_base, include_subdomains, max_pages, seen,
                   edges, pages, out, pc, fetchLog, sleepLog, canonVars, fetchVars,
                   laterVars>>

\* the way to line 161: a URL not seen, of an allowed host
Fetching ==
    /\ pc = "loop"
    /\ LoopCond(q, stats, max_pages)
    /\ canonicalize(Head(q)).ok
    /\ Url \notin seen
    /\ allowed_netloc(urlparse(Url).netloc, allowed_base, include_subdomains)

\* the call made at line 164, as history
Call(url) == [url |-> url, pages_fetched |-> stats.pages_fetched]

\* lines 161-167: fetch_record raises; the continue of line 167 goes to the
\* head of the loop, past the sleep of line 185
FetchError ==
    /\ Fetching
    /\ \E resp \in Responses(Url), rend \in Renderings(Url) :
          ~fetch_record(Url, TRUE, resp, rend).ok
    /\ seen' = MarkSeen(seen, Url)
    /\ q' = Tail(q)
    /\ stats' = [stats EXCEPT !.errors = @ + 1]
    /\ fetchLog' = Append(fetchLog, Call(Url))
    /\ UNCHANGED <<start_url, allowed_base, include_subdomains, max_pages,
                   edges, pages, out, pc, sleepLog, canonVars, fetchVars, laterVars>>

\* lines 180-185 and the way out of the link loop: acc is what ProcessLinks left
LinkEffects(acc) ==
    /\ edges' = acc.edges
    /\ q' = acc.q
    /\ stats' = [stats EXCEPT !.pages_fetched = @ + 1,
                              !.skipped_external = acc.skipped_external]
    /\ pc' = IF acc.raised THEN "aborted" ELSE "loop"
    /\ sleepLog' = IF acc.raised THEN sleepLog
                   ELSE Append(sleepLog, Len(fetchLog) + 1)

\* lines 169-185, rec the record fetch_record returned
WriteAndLink(rec, seenNow) ==
    /\ seen' = seenNow
    /\ pages' = Append(pages, rec)
    /\ LinkEffects(ProcessLinks(rec.links, rec.final_url, seenNow, allowed_base,
                                include_subdomains,
                                [raised |-> FALSE, edges |-> edges, q |-> Tail(q),
                                 skipped_external |-> stats.skipped_external]))

FetchReturned(f) == f.ok /\ WriteAndLink(f.rec, MarkSeen(seen, Url))

\* lines 161-185: fetch_record returns; the record is written and its links
\* are processed; a raise in the link loop leaves crawl_site
FetchOk ==
    /\ Fetching
    /\ \E resp \in Responses(Url), rend \in Renderings(Url) :
          FetchReturned(fetch_record(Url, TRUE, resp, rend))
    /\ fetchLog' = Append(fetchLog, Call(Url))
    /\ UNCHANGED <<start_url, allowed_base, include_subdomains, max_pages,
                   out, canonVars, fetchVars, laterVars>>

\* lines 187-213: the loop is left, edges.csv and summary.json are written
Finish ==
    /\ pc = "loop"
    /\ ~LoopCond(q, stats, max_pages)
    /\ stats' = [stats EXCEPT !.edges = Cardinality(edges)]
    /\ out' = [edges_csv |-> SortedEdges(edges),
               summary |-> [start_url |-> start_url,
                            allowed_base |-> allowed_base,
                            include_subdomains |-> include_subdomains,
                            max_pages |-> max_pages,
                            stats |-> stats',
                            unique_seen |-> Cardinality(seen)]]
    /\ pc' = "done"
    /\ UNCHANGED <<start_url, allowed_base, include_subdomains, max_pages, q, seen,
                   edges, pages, fetchLog, sleepLog, canonVars, fetchVars, laterVars>>

Next == SkipSeen \/ SkipExternal \/ FetchError \/ FetchOk \/ Finish

Init == CrawlInit

Spec == Init /\ [][Next]_vars

----------------------------------------------------------------------------
(* canonicalize as a pure function: applied once, then to its own result.   *)

BodyToks == {"a", "/", "?", "#", "[", ":", " "}

Bodies(n) == UNION {[1..k -> BodyToks] : k \in 0..n}

CanonInputs ==
    {p \o b : p \in {<<>>, HTTP, HTTPS}, b \in Bodies(MaxBody)} \cup Links \cup Seeds

CanonInit ==
    /\ cu \in CanonInputs
    /\ cr1 = Raised
    /\ cr2 = Raised
    /\ cstage = "input"
    /\ CrawlIdle
    /\ FetchIdle
    /\ LaterIdle

CanonFirst ==
    /\ cstage = "input"
    /\ cr1' = canonicalize(cu)
    /\ cstage' = "once"
    /\ UNCHANGED <<cu, cr2, crawlVars, fetchVars, laterVars>>

CanonSecond ==
    /\ cstage = "once"
    /\ cr1.ok
    /\ cr2' = canonicalize(cr1.val)
    /\ cstage' = "twice"
    /\ UNCHANGED <<cu, cr1, crawlVars, fetchVars, laterVars>>

CanonNext == CanonFirst \/ CanonSecond

SpecCanon == CanonInit /\ [][CanonNext]_vars

----------------------------------------------------------------------------
(* Claims about canonicalize (checked under SpecCanon).                     *)

\* the input after strip() and the "https://" default
CanonSource(u) ==
    IF StartsWith(Strip(u), HTTP) \/ StartsWith(Strip(u), HTTPS)
    THEN Strip(u)
    ELSE HTTPS \o Strip(u)

\* C8: canonicalize is idempotent: canonicalize(canonicalize(u)) = canonicalize(u)
\* for every input u, paths ending in several slashes included.
C8_Idempotent == cstage = "twice" => cr2 = cr1

\* C9, as stated: canonicalize preserves the query string, so an input with a
\* non-empty query has a canonical form that still holds its "?".
C9_QueryPreserved ==
    (cstage # "input" /\ cr1.ok) =>
        LET w == CanonSource(cu)
            qpos == FindFrom(w, {"?"}, 1)
            hpos == FindFrom(w, {"#"}, 1)
        IN  qpos + 1 < hpos => Contains(cr1.val, "?")

\* C9, amended: canonicalize prepends https:// when the input has no scheme,
\* drops the fragment AND the query (the result is the input up to its first
\* "?" or "#"), and strips exactly one trailing "/" unless the path is exactly
\* "/"; so two URLs that differ only in their query string have the SAME
\* canonical form.
C9_QueryDropped ==
    (cstage # "input" /\ cr1.ok) =>
        LET w == CanonSource(cu)
            r0 == SubSeq(w, 1, FindFrom(w, {"?", "#"}, 1) - 1)
            pathIsSlash == FindFrom(r0, {"/"}, 5) = Len(r0)
            expected == IF EndsWith(r0, <<"/">>) /\ ~pathIsSlash
                        THEN SubSeq(r0, 1, Len(r0) - 1)
                        ELSE r0
        IN  /\ cr1.val = expected
            /\ (~StartsWith(Strip(cu), HTTP)) => StartsWith(cr1.val, <<"https", ":", "/">>)
            /\ ~Contains(cr1.val, "?") /\ ~Contains(cr1.val, "#")
            /\ (/\ ~Contains(cu, "?")
                /\ ~Contains(cu, "#")
                /\ cu = RStrip(cu))
               => \A qs \in {<<"a">>, <<"a", "/">>} :
                      canonicalize(cu \o <<"?">> \o qs) = cr1

\* C9 witness: an input without scheme and with a query, canonicalized to
\* https://a with the query gone.
C9_Witness ==
    /\ cstage = "once"
    /\ cu = <<"a", "?", "a">>
    /\ cr1 = Ok(HTTPS \o <<"a">>)

\* C10: canonicalize never raises (on input that cannot be parsed as a URL it
\* returns the original string).
C10_NeverRaises == cstage # "input" => cr1.ok

----------------------------------------------------------------------------
(* fetch_record as a pure function of what the network and the browser     *)
(* answer.                                                                  *)

\* n distinct links https://example.com/a, /aa, /aaa, ...
ManyLinks(n) == [i \in 1..n |-> HTTPS \o ExampleCom \o <<"/">> \o [j \in 1..i |-> "a"]]

FetchResponses(url) ==
    { NetworkError(url), NotFound(url),
      [err |-> FALSE, status |-> 200, final |-> url, is_html |-> FALSE,
       hrefs |-> <<>>, text |-> TextEmpty, text_md |-> TextEmpty] }
    \cup
    { [err |-> FALSE, status |-> 200, final |-> final, is_html |-> TRUE,
       hrefs |-> ManyLinks(n), text |-> Text("plain", 900), text_md |-> Text("md", m)] :
         final \in {url, L_landing},
         n \in {0, MinLinks - 1, MinLinks},
         m \in {0, MinTextChars - 1, MinTextChars} }

FetchRenderings(url) ==
    { RenderFailed,
      [err |-> FALSE, hrefs |-> <<L_productFrag, <<>>, L_product, L_sub>>,
       text |-> Text("rendered plain", 900), text_md |-> Text("rendered md", 900)],
      [err |-> FALSE, hrefs |-> <<>>,
       text |-> Text("rendered plain", 900), text_md |-> TextEmpty] }

FetchInit ==
    /\ fin \in UNION { [url : {u},
                         browser : BOOLEAN,
                         resp : FetchResponses(u),
                         rend : FetchRenderings(u)] : u \in {L_root, L_product} }
    /\ fout = <<>>
    /\ fstage = "input"
    /\ CrawlIdle
    /\ CanonIdle
    /\ LaterIdle

FetchCall ==
    /\ fstage = "input"
    /\ fout' = fetch_record(fin.url, fin.browser, fin.resp, fin.rend)
    /\ fstage' = "called"
    /\ UNCHANGED <<fin, crawlVars, canonVars, laterVars>>

FetchNext == FetchCall

SpecFetch == FetchInit /\ [][FetchNext]_vars

----------------------------------------------------------------------------
(* Claims about crawl_site (checked under Spec).                            *)

Allowed(url) == allowed_netloc(urlparse(url).netloc, allowed_base, include_subdomains)

\* C1: every URL on the frontier (the seed and every link enqueued while a
\* page's links are processed) has a host that passes allowed_netloc for the
\* seed's base domain and the include_subdomains setting; no link of the last
\* written page whose canonical form has another host is on the frontier.
C1_FrontierAllowed ==
    /\ \A i \in 1..Len(q) :
          \/ base_domain(urlparse(q[i]).netloc) = allowed_base
          \/ /\ include_subdomains
             /\ EndsWith(base_domain(urlparse(q[i]).netloc), <<".">> \o allowed_base)
    /\ \A i \in 1..Len(q) : q[i] \notin {L_other, L_not}

\* C1 witness: the home page linked to the product page and to other.com; the
\* product page is queued, other.com was counted and dropped.
C1_Witness ==
    /\ Len(pages) = 1
    /\ pages[1].links = <<L_product, L_other>>
    /\ q = <<L_product>>
    /\ stats.skipped_external = 1

NoDuplicateFetch ==
    \A i, j \in 1..Len(fetchLog) : fetchLog[i].url = fetchLog[j].url => i = j

\* a step that dequeues a URL already in seen
DequeuesSeen ==
    /\ pc = "loop"
    /\ q # <<>>
    /\ stats.pages_fetched < max_pages
    /\ canonicalize(Head(q)).val \in seen

\* C2: no canonical URL is passed to fetch_record twice in one crawl, also
\* when its first fetch raised; a dequeued URL that is already in seen only
\* increments skipped_seen and is not fetched.
C2_NoRefetch ==
    /\ []NoDuplicateFetch
    /\ [][DequeuesSeen =>
            /\ fetchLog' = fetchLog
            /\ pages' = pages
            /\ seen' = seen
            /\ stats' = [stats EXCEPT !.skipped_seen = @ + 1]]_vars

\* C2 witness: the product page was queued twice (as /product/ and /product//),
\* its fetch raised, and its second dequeue was skipped as seen.
C2_Witness ==
    /\ Len(fetchLog) = 2
    /\ fetchLog[2].url = L_product
    /\ Len(pages) = 1
    /\ stats.errors = 1
    /\ stats.skipped_seen = 1

\* the run of the scenario: both fetches succeed, the first page links to the
\* product page and to other.com, no other page has links
Scenario ==
    /\ start_url = L_root
    /\ max_pages = 5
    /\ stats.errors = 0
    /\ Len(pages) >= 1
    /\ pages[1].final_url = L_root
    /\ pages[1].links = <<L_product, L_other>>
    /\ \A i \in 2..Len(pages) : pages[i].links = <<>> /\ pages[i].final_url = pages[i].url

C4_NeverAborts ==
    /\ pc # "aborted"
    /\ Len(fetchLog) = stats.pages_fetched + stats.errors
    /\ Len(pages) = stats.pages_fetched

\* C5: with max_pages >= 0, pages_fetched <= max_pages, every fetch is
\* attempted while pages_fetched < max_pages, and the page log holds
\* pages_fetched records.
C5_Budget ==
    max_pages >= 0 =>
        /\ stats.pages_fetched <= max_pages
        /\ \A i \in 1..Len(fetchLog) : fetchLog[i].pages_fetched < max_pages
        /\ Len(pages) = stats.pages_fetched

\* C5 witness: the budget stopped the crawl with URLs left on the frontier.
C5_Witness ==
    /\ pc = "done"
    /\ max_pages = 2
    /\ stats.pages_fetched = 2
    /\ q # <<>>

\* C6: the loop is left only because the frontier is empty or pages_fetched
\* has reached max_pages, and then the edge list and the summary are written.
C6_NormalStop ==
    pc # "loop" =>
        /\ pc = "done"
        /\ q = <<>> \/ stats.pages_fetched >= max_pages
        /\ out # NoFile

\* Every step of the loop fetches a page or shortens the frontier, and
\* pages_fetched is bounded by max_pages (C5): the loop is left in every run.
LoopVariant ==
    [][pc = "loop" =>
          \/ pc' # "loop"
          \/ stats'.pages_fetched > stats.pages_fetched
          \/ stats'.pages_fetched = stats.pages_fetched /\ Len(q') < Len(q)]_vars

----------------------------------------------------------------------------
(* Claims about fetch_record (checked under SpecFetch).                     *)

PlainOutcome == fetch_http(fin.url, fin.resp)
RenderedOutcome == fetch_rendered(fin.url, fin.rend)

\* C7: fetch_record always fetches over HTTP first; it tries the rendered
\* fetch only when a browser is supplied and the plain result is thin (fewer
\* than 10 links or less than 800 characters of markdown); it returns the
\* rendered result if that attempt does not raise and the plain result if it
\* does; a plain failure is raised to the caller without a rendered attempt.
C7_PlainFirst ==
    fstage = "called" =>
        /\ Head(fout.calls) = "fetch_http"
        /\ ~PlainOutcome.ok => (~fout.ok /\ fout.calls = <<"fetch_http">>)
        /\ PlainOutcome.ok =>
              LET thin == \/ PlainOutcome.val.links_count < 10
                          \/ PlainOutcome.val.text_md.len < 800
                  r == IF fin.browser /\ thin /\ RenderedOutcome.ok
                       THEN RenderedOutcome.val
                       ELSE PlainOutcome.val
              IN  /\ fout.ok
                  /\ fout.calls = IF fin.browser /\ thin
                                  THEN <<"fetch_http", "fetch_rendered">>
                                  ELSE <<"fetch_http">>
                  /\ fout.rec.url = fin.url
                  /\ fout.rec.content_type = r.content_type
                  /\ fout.rec.status = r.status
                  /\ fout.rec.links = r.links
                  /\ fout.rec.text_md = r.text_md

\* C7 witness: the plain result is thin, the rendered fetch raises, and the
\* plain result is returned.
C7_Witness ==
    /\ fstage = "called"
    /\ fin.browser
    /\ fin.rend.err
    /\ fout.ok
    /\ fout.calls = <<"fetch_http", "fetch_rendered">>
    /\ fout.rec.content_type = "text/html"


\* the FetchResult fetch_record builds its record from: the rendered one when
\* the rendered fetch was made and returned, else the plain one
UsedRendered ==
    /\ Len(fout.calls) = 2
    /\ fetch_rendered(fin.url, fin.rend).ok

\* C25: the record fetch_record returns keeps the two renderings of the
\* fetch result apart: text_md is its markdown extraction and text_plain its
\* plain-text extraction, also when both are non-empty and differ.
C25_TwoRenderings ==
    (fstage = "called" /\ fout.ok) =>
        /\ fout.rec.text_md =
               (IF UsedRendered THEN fin.rend.text_md
                ELSE fetch_http(fin.url, fin.resp).val.text_md)
        /\ fout.rec.text_plain =
               (IF UsedRendered THEN fin.rend.text
                ELSE fetch_http(fin.url, fin.resp).val.text)

\* C27: whenever the crawl loop is at the head of an iteration, and when it
\* is left, the visited set has pages_fetched + errors members, each of an
\* allowed host; the summary's unique_seen is pages_fetched + errors.
C27_Counters ==
    /\ pc \in {"loop", "done", "aborted"} =>
          /\ Cardinality(seen) = stats.pages_fetched + stats.errors
          /\ \A u \in seen : Allowed(u)
    /\ pc = "done" =>
          out.summary.unique_seen =
              out.summary.stats.pages_fetched + out.summary.stats.errors

\* a finished crawl with pages fetched, a fetch that failed, and an external
\* URL skipped
C27_Witness ==
    /\ pc = "done"
    /\ stats.pages_fetched >= 2
    /\ stats.errors >= 1
    /\ stats.skipped_external >= 1
    /\ out.summary.unique_seen = stats.pages_fetched + stats.errors

\* C28: the disallowed-host branch at the head of the loop is taken in no
\* run: a URL taken from the frontier that is not yet visited has an allowed
\* host; so skipped_external counts the disallowed-host link occurrences of
\* the pages fetched, and nothing else.
C28_NoDequeueSkip ==
    /\ (pc = "loop" /\ LoopCond(q, stats, max_pages) /\ canonicalize(Head(q)).ok
          /\ Url \notin seen) => Allowed(Url)
    /\ pc \in {"loop", "done"} =>
          stats.skipped_external =
              Cardinality(UNION { { <<i, k>> : k \in { n \in 1..Len(pages[i].links) :
                                      ~Allowed(canonicalize(pages[i].links[n]).val) } } :
                                  i \in 1..Len(pages) })

\* the pairs (final_url of a page of the log, canonical form of one of its
\* links) whose target has an allowed host
LinkPairs ==
    UNION { { <<pages[i].final_url, canonicalize(pages[i].links[k]).val>> :
                k \in { n \in 1..Len(pages[i].links) :
                          Allowed(canonicalize(pages[i].links[n]).val) } } :
            i \in 1..Len(pages) }

PairBefore(a, b) == StrLess(a[1], b[1]) \/ (a[1] = b[1] /\ StrLess(a[2], b[2]))

\* C24: while the crawl runs and at its end the edge set is exactly the set
\* of pairs (final_url of a fetched page, canonical link) over the links of
\* allowed host, visited or queued targets and self-links included; a step
\* appends to the frontier only URLs that are not visited; the edge file
\* lists each pair once in increasing order of (source, target), and
\* stats.edges is the number of pairs.
C24_Edges ==
    /\ [](/\ (pc \in {"loop", "done"}) => (edges = LinkPairs)
          /\ (pc = "done") =>
                (/\ { out.edges_csv[i] : i \in 1..Len(out.edges_csv) } = LinkPairs
                 /\ Len(out.edges_csv) = Cardinality(LinkPairs)
                 /\ out.summary.stats.edges = Cardinality(LinkPairs)
                 /\ \A i \in 1..(Len(out.edges_csv) - 1) :
                        PairBefore(out.edges_csv[i], out.edges_csv[i + 1])))
    /\ [][(q' # q) => (\A k \in Len(q)..Len(q') : q'[k] \notin seen')]_vars

\* a finished crawl whose edge set holds a self-link, an edge to a page that
\* was already visited when the link was seen, and two edges in all or more
C24_Witness ==
    /\ pc = "done"
    /\ \E e \in edges : e[1] = e[2]
    /\ \E e \in edges : e[1] # e[2] /\ e[2] \in seen
    /\ \E i \in 1..Len(pages) : \E k \in 1..Len(pages[i].links) :
           ~Allowed(canonicalize(pages[i].links[k]).val)
    /\ Len(out.edges_csv) >= 3

\* the URLs one link away from a URL of R: the canonical forms of the
\* allowed-host links of the logged pages that were fetched at a URL of R
OneLinkAway(R) ==
    UNION { { canonicalize(pages[i].links[k]).val :
                k \in { n \in 1..Len(pages[i].links) :
                          Allowed(canonicalize(pages[i].links[n]).val) } } :
            i \in { m \in 1..Len(pages) : pages[m].url \in R } }

\* the URLs within k links of the set R
RECURSIVE WithinLinks(_, _)
WithinLinks(R, k) == IF k = 0 THEN R ELSE WithinLinks(R \cup OneLinkAway(R), k - 1)

\* the link distance of u from the canonicalized seed over the logged pages;
\* Len(pages) + 1, more than any distance, when no chain of links leads to u
LinkDistance(u) ==
    IF u \notin WithinLinks({start_url}, Len(pages)) THEN Len(pages) + 1
    ELSE CHOOSE k \in 0..Len(pages) :
            /\ u \in WithinLinks({start_url}, k)
            /\ \A j \in 0..(k - 1) : u \notin WithinLinks({start_url}, j)

C29_OutOfOrder ==
    /\ pc = "done"
    /\ Len(pages) = 5
    /\ \E i \in 1..4 :
          /\ LinkDistance(pages[i].url) = 3
          /\ LinkDistance(pages[i + 1].url) = 2

----------------------------------------------------------------------------
(* allowed_netloc and needs_browser as pure functions.                      *)

SubCom == <<"sub", ".">> \o ExampleCom
WwwDot == <<"www", ".">>

\* hosts: netlocs as urlparse returns them
Hosts ==
    { <<>>, WwwDot, <<"com">>, ExampleCom, WwwDot \o ExampleCom,
      <<"WWW", ".", "EXAMPLE", ".", "com">>, <<"EXAMPLE", ".", "com">>,
      WwwDot \o WwwDot \o ExampleCom, SubCom, WwwDot \o SubCom,
      <<"sub", ".", "EXAMPLE", ".", "com">>,
      <<"not", "example", ".", "com">>, <<"other", ".", "com">>,
      ExampleCom \o <<".", "other", ".", "com">>, <<".">> \o ExampleCom }

\* bases: base_domain of a seed's netloc, or any string a caller passes
Bases == { <<>>, <<"com">>, ExampleCom, SubCom, WwwDot \o ExampleCom,
           <<"EXAMPLE", ".", "com">> }

AllowedInit ==
    /\ fn = "allowed_netloc"
    /\ args \in [netloc : Hosts, allowed_base : Bases, include_subdomains : BOOLEAN]
    /\ ret = <<>>
    /\ returned = FALSE
    /\ CrawlIdle
    /\ CanonIdle
    /\ FetchIdle
    /\ StagesIdle

AllowedCall ==
    /\ fn = "allowed_netloc"
    /\ ~returned
    /\ ret' = allowed_netloc(args.netloc, args.allowed_base, args.include_subdomains)
    /\ returned' = TRUE
    /\ UNCHANGED <<fn, args, crawlVars, canonVars, fetchVars, stageVars>>

AllowedNext == AllowedCall

SpecAllowed == AllowedInit /\ [][AllowedNext]_vars

\* C11: allowed_netloc(h, b, True) is true iff base_domain(h) = b or
\* base_domain(h) ends with "." + b; allowed_netloc(h, b, False) is true iff
\* base_domain(h) = b; base_domain(h) is h in lower case without one leading
\* "www.".
C11_AllowedIff ==
    (fn = "allowed_netloc" /\ returned) =>
        LET h == args.netloc
            b == args.allowed_base
            lo == [i \in 1..Len(h) |->
                     IF h[i] = "WWW" THEN "www"
                     ELSE IF h[i] = "EXAMPLE" THEN "example" ELSE h[i]]
            bd == IF Len(lo) >= 2 /\ lo[1] = "www" /\ lo[2] = "."
                  THEN [i \in 1..(Len(lo) - 2) |-> lo[i + 2]]
                  ELSE lo
            dotb == <<".">> \o b
        IN  /\ base_domain(h) = bd
            /\ args.include_subdomains =>
                 (ret <=> \/ bd = b
                          \/ /\ Len(bd) >= Len(dotb)
                             /\ \A i \in 1..Len(dotb) :
                                   bd[Len(bd) - Len(dotb) + i] = dotb[i])
            /\ ~args.include_subdomains => (ret <=> bd = b)

\* C11 witness: WWW.sub.example.com style hosts: www.sub.example.com is
\* allowed for base example.com with subdomains, and notexample.com is not.
C11_Witness ==
    /\ fn = "allowed_netloc"
    /\ returned
    /\ args.include_subdomains
    /\ args.allowed_base = ExampleCom
    /\ \/ args.netloc = WwwDot \o SubCom /\ ret
       \/ args.netloc = <<"not", "example", ".", "com">> /\ ~ret

\* thin and full pages around the thresholds
NeedsInit ==
    /\ fn = "needs_browser"
    /\ args \in [links_count : 0..(MinLinks + 2),
                 text_md : {Text("md", n) : n \in {0, 1, MinTextChars - 1, MinTextChars,
                                                   MinTextChars + 1, 2 * MinTextChars}}]
    /\ ret = <<>>
    /\ returned = FALSE
    /\ CrawlIdle
    /\ CanonIdle
    /\ FetchIdle
    /\ StagesIdle

NeedsCall ==
    /\ fn = "needs_browser"
    /\ ~returned
    /\ ret' = needs_browser(args, MinLinks, MinTextChars)
    /\ returned' = TRUE
    /\ UNCHANGED <<fn, args, crawlVars, canonVars, fetchVars, stageVars>>

NeedsNext == NeedsCall

SpecNeeds == NeedsInit /\ [][NeedsNext]_vars

\* C12: with the default thresholds needs_browser(r) is true iff
\* r.links_count < 10 or len(r.text_md) < 800; 9 links give true, 10 links
\* with 800 characters give false, 799 characters give true.
C12_Thresholds ==
    (fn = "needs_browser" /\ returned) =>
        /\ ret <=> (args.links_count < 10 \/ args.text_md.len < 800)
        /\ args.links_count = 9 => ret
        /\ (args.links_count = 10 /\ args.text_md.len = 800) => ~ret
        /\ args.text_md.len = 799 => ret

\* C12 witness: ten links and 799 characters of markdown ask for the browser.
C12_Witness ==
    /\ fn = "needs_browser"
    /\ returned
    /\ args.links_count = 10
    /\ args.text_md.len = 799
    /\ ret

----------------------------------------------------------------------------
(* score.py: lexical scores of a page.                                      *)
(*                                                                          *)
(* A text is a sequence of tokens: the whitespace characters " ", "\n",     *)
(* "\r", "\t", the character "|", and words.  A word "xN" is a run of N     *)
(* characters that holds no term.  The words are chosen so that a term is   *)
(* a substring of the text exactly when its tokens are a contiguous part    *)
(* of the text's tokens, or it lies within one word (SubWords).             *)
(* Scores are floats in the code; the model holds them in tenths            *)
(* (capability 1.0 -> 10, engineering 1.2 -> 12) and total in thousandths.  *)

\* the terms of the lists that can be written with the words of the model
CAPABILITY_TERMS == << <<"api">>, <<"latency">>, <<"decision">>, <<"decisioning">>,
                       <<"fraud">> >>
FLUFF_TERMS == << <<"newsletter">>, <<"subscribe">>, <<"what", " ", "is">>,
                  <<"introduction">>, <<"definitions">> >>
ENGINEERING_SIGNALS == << <<"latency">>, <<"kafka">> >>

\* the terms that are substrings of one word
SubWords(w) == IF w = "decisioning" THEN {"decision", "decisioning"} ELSE {w}

\* number of characters of a token
CharLen(t) ==
    CASE t \in Whitespace \cup {"|"} -> 1
      [] t = "x10" -> 10
      [] t = "x38" -> 38
      [] t = "x39" -> 39
      [] t = "x40" -> 40
      [] t = "x50" -> 50
      [] t = "x90" -> 90
      [] t = "api" -> 3
      [] t = "API" -> 3
      [] t = "what" -> 4
      [] t = "is" -> 2
      [] t = "fraud" -> 5
      [] t = "kafka" -> 5
      [] t = "Kafka" -> 5
      [] t = "latency" -> 7
      [] t = "decision" -> 8
      [] t = "decisioning" -> 11
      [] t = "newsletter" -> 10
      [] t = "subscribe" -> 9
      [] t = "introduction" -> 12
      [] t = "definitions" -> 11

RECURSIVE StrLen(_)
StrLen(s) == IF s = <<>> THEN 0 ELSE CharLen(Head(s)) + StrLen(Tail(s))

\* `t in s` for strings
ContainsSeq(s, t) ==
    \E i \in 1..(Len(s) - Len(t) + 1) : SubSeq(s, i, i + Len(t) - 1) = t

\* re.sub(r"\s+", " ", s)
RECURSIVE CollapseSpace(_)
CollapseSpace(s) ==
    IF s = <<>> THEN <<>>
    ELSE IF Head(s) \notin Whitespace THEN <<Head(s)>> \o CollapseSpace(Tail(s))
    ELSE IF Tail(s) # <<>> /\ Head(Tail(s)) \in Whitespace THEN CollapseSpace(Tail(s))
    ELSE <<" ">> \o CollapseSpace(Tail(s))

\* " ".join(parts)
RECURSIVE JoinSpace(_)
JoinSpace(parts) ==
    IF parts = <<>> THEN <<>>
    ELSE IF Len(parts) = 1 THEN Head(parts)
    ELSE Head(parts) \o <<" ">> \o JoinSpace(Tail(parts))

\* path(url): the URL's path, "/" when it is empty; url parses (it is a
\* canonical URL of the page log)
path(url) == IF urlparse(url).path = <<>> THEN <<"/">> ELSE urlparse(url).path

is_blog(url) ==
    \/ StartsWith(path(url), <<"/", "blog">>)
    \/ ContainsSeq(path(url), <<"/", "blog", "/">>)

tokenize(s) == Lower(Strip(CollapseSpace(s)))

TermIn(term, t) ==
    IF Len(term) = 1
    THEN \E i \in 1..Len(t) : term[1] \in SubWords(t[i])
    ELSE ContainsSeq(t, term)

\* term_score(text, terms, weight), weight in tenths
TermCount(t, terms) == Cardinality({i \in 1..Len(terms) : TermIn(terms[i], t)})
term_score(text, terms, weight) == weight * TermCount(tokenize(text), terms)

\* freshness_hint: the date in the path, YYYY/MM/DD or YYYY-MM-DD, else
\* YYYY/MM; 20\d{2} and \d{1,2} match whole tokens of the model
YearToks == {"2024"}
NumToks == {"01", "13", "15"}
DateSep == {"/", "-"}
NumVal(t) == CASE t = "01" -> 1 [] t = "13" -> 13 [] t = "15" -> 15

IsYearMonth(p, i) ==
    /\ i + 2 <= Len(p)
    /\ p[i] \in YearToks
    /\ p[i + 1] \in DateSep
    /\ p[i + 2] \in NumToks

IsFullDate(p, i) ==
    /\ IsYearMonth(p, i)
    /\ i + 4 <= Len(p)
    /\ p[i + 3] \in DateSep
    /\ p[i + 4] \in NumToks

FirstFullDate(p) == CHOOSE i \in 1..Len(p) :
                        IsFullDate(p, i) /\ \A j \in 1..(i - 1) : ~IsFullDate(p, j)

FirstYearMonth(p) == CHOOSE i \in 1..Len(p) :
                         IsYearMonth(p, i) /\ \A j \in 1..(i - 1) : ~IsYearMonth(p, j)

\* the (month, day) the regular expressions find, <<>> when neither matches
DateIn(p) ==
    IF \E i \in 1..Len(p) : IsFullDate(p, i)
    THEN <<NumVal(p[FirstFullDate(p) + 2]), NumVal(p[FirstFullDate(p) + 4])>>
    ELSE IF \E i \in 1..Len(p) : IsYearMonth(p, i)
    THEN <<NumVal(p[FirstYearMonth(p) + 2]), 1>>
    ELSE <<>>

\* lines 76-82
AgeScore(age_days) ==
    IF age_days < 90 THEN 10
    ELSE IF age_days < 365 THEN 8
    ELSE IF age_days < 730 THEN 6
    ELSE 3

\* datetime(y, mo, d) raises on a month above 12 (the days of the model exist
\* in every month); age_days is (datetime.now() - dt).days, set by the clock
Freshness(date, age_days) ==
    IF date = <<>> THEN 5
    ELSE IF date[1] \notin 1..12 THEN 5
    ELSE AgeScore(age_days)

freshness_hint(url, age_days) == Freshness(DateIn(path(url)), age_days)

Blob(title, headings, text) ==
    title \o <<" ", "|", " ">> \o JoinSpace(headings) \o <<" ", "|", " ">> \o text

\* line 106-108, in thousandths
Total(cap, eng, fluff, fresh, blog) ==
    IF blog THEN (cap + eng - 12 * (fluff \div 10)) * (70 + 6 * fresh)
    ELSE (cap + eng - 12 * (fluff \div 10)) * 100

\* the bug of leaving the override for other pages out
Keep_NoOverride(cap, eng, fluff, blog) == (cap + eng >= 20) /\ (fluff <= 40)

\* lines 111-113
Keep(cap, eng, fluff, blog) ==
    IF ~blog THEN TRUE ELSE (cap + eng >= 20) /\ (fluff <= 40)

PageScores(cap, eng, fluff, fresh, blog) ==
    [capability |-> cap, fluff |-> fluff, engineering |-> eng, freshness |-> fresh,
     total |-> Total(cap, eng, fluff, fresh, blog),
     keep |-> Keep(cap, eng, fluff, blog)]

ScoreBlob(url, blob, age_days) ==
    PageScores(term_score(blob, CAPABILITY_TERMS, 10),
               term_score(blob, ENGINEERING_SIGNALS, 12),
               term_score(blob, FLUFF_TERMS, 10),
               freshness_hint(url, age_days),
               is_blog(url))

score_page(url, title, headings, text, age_days) ==
    ScoreBlob(url, Blob(title, headings, text), age_days)

\* ---- score_page as a pure function ----

BlogHome == HTTPS \o ExampleCom \o <<"/", "blog">>
BlogPost == BlogHome \o <<"/", "post">>
BlogDated == BlogHome \o <<"/", "2024", "/", "01", "/", "15", "/", "post">>
BlogBadDate == BlogHome \o <<"/", "2024", "-", "13">>
Blogger == HTTPS \o ExampleCom \o <<"/", "blog", "ger">>
NewsBlogPost == HTTPS \o ExampleCom \o <<"/", "news", "/", "blog", "/", "post">>
NewsBlog == HTTPS \o ExampleCom \o <<"/", "news", "/", "blog">>
NewsDated == HTTPS \o ExampleCom \o <<"/", "news", "/", "2024", "-", "01">>

ScoreUrls == {HTTPS \o ExampleCom, L_root, L_product, BlogHome, BlogPost, BlogDated,
              BlogBadDate, Blogger, NewsBlogPost, NewsBlog, NewsDated}

\* the pieces a page text is made of
Blocks == << <<"fraud", " ">>, <<"latency", "\n">>, <<"newsletter", " ">>,
             <<"subscribe", "\t", " ">>, <<"introduction", "\n", "\n">>,
             <<"definitions", "\r", "\n">>, <<"what", " ", "\n", "is">> >>

RECURSIVE TextOf(_, _)
TextOf(chosen, i) ==
    IF i > Len(Blocks) THEN <<>>
    ELSE (IF i \in chosen THEN Blocks[i] ELSE <<>>) \o TextOf(chosen, i + 1)

ScoreTexts == {TextOf(chosen, 1) : chosen \in SUBSET (1..Len(Blocks))}

ScoreInit ==
    /\ fn = "score_page"
    /\ args \in [url : ScoreUrls,
                 title : {<<>>, <<"API">>},
                 headings : {<<>>, << <<"Kafka">>, <<"decisioning">> >>},
                 text : ScoreTexts,
                 age_days : {10, 800}]
    /\ ret = <<>>
    /\ returned = FALSE
    /\ CrawlIdle
    /\ CanonIdle
    /\ FetchIdle
    /\ StagesIdle

ScoreCall ==
    /\ fn = "score_page"
    /\ ~returned
    /\ ret' = score_page(args.url, args.title, args.headings, args.text, args.age_days)
    /\ returned' = TRUE
    /\ UNCHANGED <<fn, args, crawlVars, canonVars, fetchVars, stageVars>>

ScoreNext == ScoreCall

SpecScore == ScoreInit /\ [][ScoreNext]_vars

\* the URLs of the model whose path starts with /blog or holds /blog/
BlogUrls == {BlogHome, BlogPost, BlogDated, BlogBadDate, Blogger, NewsBlogPost}

----------------------------------------------------------------------------
(* trim.py: split_paragraphs.                                               *)

\* shortest paragraph kept (line 21)
MinParaChars == 80

\* number of "\n" in a row from position i on
RECURSIVE NlRun(_, _)
NlRun(s, i) == IF i <= Len(s) /\ s[i] = "\n" THEN 1 + NlRun(s, i + 1) ELSE 0

\* length of the match of \n{2,}|\r\n\r\n+ at position i, 0 when there is none
MatchLen(s, i) ==
    IF NlRun(s, i) >= 2 THEN NlRun(s, i)
    ELSE IF /\ i + 3 <= Len(s)
            /\ s[i] = "\r" /\ s[i + 1] = "\n" /\ s[i + 2] = "\r"
            /\ NlRun(s, i + 3) >= 1
    THEN 3 + NlRun(s, i + 3)
    ELSE 0

\* re.split of line 17, from position i on, cur the fragment begun
RECURSIVE ReSplit(_, _, _)
ReSplit(s, i, cur) ==
    IF i > Len(s) THEN <<cur>>
    ELSE IF MatchLen(s, i) > 0 THEN <<cur>> \o ReSplit(s, i + MatchLen(s, i), <<>>)
    ELSE ReSplit(s, i + 1, Append(cur, s[i]))

\* line 20
NormalizePara(p) == Strip(CollapseSpace(p))

\* the bug of dropping a paragraph of exactly 80 characters
KeepPara_Strict(p) == StrLen(p) > MinParaChars

\* line 21
KeepPara(p) == StrLen(p) >= MinParaChars

NormalizeAll(raw) == [i \in 1..Len(raw) |-> NormalizePara(raw[i])]

split_paragraphs(text) == SelectSeq(NormalizeAll(ReSplit(text, 1, <<>>)), KeepPara)

\* ---- split_paragraphs as a pure function ----

Paras == { <<>>, <<"x90">>, <<"x40">>, <<"x39", " ", "x40">>, <<"x38", " ", "x40">>,
           <<"x39", " ", " ", "\t", "x40">>, <<" ", "x39", "\n", "x40", " ">> }

Separators == { <<"\n", "\n">>, <<"\n", "\n", "\n">>, <<"\r", "\n", "\r", "\n">>,
                <<"\r", "\n", "\r", "\n", "\n">>, <<"\r", "\n", "\r", "\n", "\r", "\n">>,
                <<"\n">>, <<"\r", "\n">>, <<"\n", " ", "\n">>, <<" ">>, <<>> }

SplitTexts == { p1 \o s1 \o p2 \o s2 \o p3 :
                  p1 \in Paras, s1 \in Separators, p2 \in Paras,
                  s2 \in Separators, p3 \in {<<>>, <<"x50">>, <<"x39", " ", "x40">>} }

SplitInit ==
    /\ fn = "split_paragraphs"
    /\ args \in [text : SplitTexts]
    /\ ret = <<>>
    /\ returned = FALSE
    /\ CrawlIdle
    /\ CanonIdle
    /\ FetchIdle
    /\ StagesIdle

SplitCall ==
    /\ fn = "split_paragraphs"
    /\ ~returned
    /\ ret' = split_paragraphs(args.text)
    /\ returned' = TRUE
    /\ UNCHANGED <<fn, args, crawlVars, canonVars, fetchVars, stageVars>>

SplitNext == SplitCall

SpecSplit == SplitInit /\ [][SplitNext]_vars

\* whitespace between two words that holds an empty line: two line feeds in
\* a row, or two CR LF in a row
HasBlankLine(gap) ==
    \/ \E i \in 1..(Len(gap) - 1) : gap[i] = "\n" /\ gap[i + 1] = "\n"
    \/ \E i \in 1..(Len(gap) - 3) :
          gap[i] = "\r" /\ gap[i + 1] = "\n" /\ gap[i + 2] = "\r" /\ gap[i + 3] = "\n"

\* the fragments of a text, word by word: a word starts a new fragment when
\* the whitespace before it holds an empty line; the words of a fragment are
\* joined by single spaces
RECURSIVE Fragments(_, _, _, _)
Fragments(s, i, cur, gap) ==
    IF i > Len(s) THEN <<cur>>
    ELSE IF s[i] \in {" ", "\n", "\r", "\t"} THEN Fragments(s, i + 1, cur, Append(gap, s[i]))
    ELSE IF cur = <<>> \/ gap = <<>> THEN Fragments(s, i + 1, Append(cur, s[i]), <<>>)
    ELSE IF HasBlankLine(gap) THEN <<cur>> \o Fragments(s, i + 1, <<s[i]>>, <<>>)
    ELSE Fragments(s, i + 1, cur \o <<" ", s[i]>>, <<>>)

LongFragments(s) == SelectSeq(Fragments(s, 1, <<>>, <<>>), LAMBDA f : StrLen(f) >= 80)

\* C14: split_paragraphs returns, in the order of the text, the fragments
\* between empty lines (whitespace normalized to single spaces) that are at
\* least 80 characters long; a paragraph of 90 and one of 40 characters with
\* an empty line between them give the 90-character one alone.
C14_Split ==
    (fn = "split_paragraphs" /\ returned) =>
        /\ ret = LongFragments(args.text)
        /\ args.text = <<"x90", "\n", "\n", "x40">> => ret = << <<"x90">> >>

\* C14 witness: the text of the example gives the 90-character paragraph.
C14_Witness ==
    /\ fn = "split_paragraphs"
    /\ returned
    /\ args.text = <<"x90", "\n", "\n", "x40">>
    /\ ret = << <<"x90">> >>

----------------------------------------------------------------------------
(* trim.py build_snippets and evidence.py build_evidence_packs: from the    *)
(* page log to the evidence packs.                                          *)

\* defaults of build_evidence_packs (lines 36-37)
MaxSnippetsPerUrl == 25
MaxFullTextChars == 40000

Min(a, b) == IF a < b THEN a ELSE b

\* lines 30-33, in tenths, in exact arithmetic
score_paragraph(p) ==
    term_score(p, CAPABILITY_TERMS, 10) + term_score(p, ENGINEERING_SIGNALS, 12)
        - 14 * (term_score(p, FLUFF_TERMS, 10) \div 10)

\* a line of pages.jsonl that holds nothing but whitespace (lines 73-75)
BlankLine == [blank |-> TRUE]

\* line 79
RecUrl(rec) == IF rec.final_url # <<>> THEN rec.final_url ELSE rec.url

\* lines 84-85
ScoreRec(rec, age_days) ==
    rec @@ score_page(RecUrl(rec), rec.title, rec.headings, rec.text, age_days)

\* list.sort(key=score, reverse=True): stable, the highest score first
RECURSIVE InsertDesc_Unstable(_, _)
InsertDesc_Unstable(sorted, x) ==
    IF sorted = <<>> THEN <<x>>
    ELSE IF Head(sorted).score > x.score
    THEN <<Head(sorted)>> \o InsertDesc_Unstable(Tail(sorted), x)
    ELSE <<x>> \o sorted

RECURSIVE InsertDesc(_, _)
InsertDesc(sorted, x) ==
    IF sorted = <<>> THEN <<x>>
    ELSE IF Head(sorted).score >= x.score THEN <<Head(sorted)>> \o InsertDesc(Tail(sorted), x)
    ELSE <<x>> \o sorted

RECURSIVE SortDesc(_, _)
SortDesc(todo, sorted) ==
    IF todo = <<>> THEN sorted ELSE SortDesc(Tail(todo), InsertDesc(sorted, Head(todo)))

\* line 90
ScoreParas(paras) == [i \in 1..Len(paras) |-> [score |-> score_paragraph(paras[i]),
                                                text |-> paras[i]]]

\* lines 93-100
SnippetLines(url, title, ranked, k) ==
    [i \in 1..Min(k, Len(ranked)) |->
        [url |-> url, title |-> title, rank |-> i,
         score |-> ranked[i].score, text |-> ranked[i].text]]

RecSnippets(rec, k) ==
    SnippetLines(RecUrl(rec), rec.title,
                 SortDesc(ScoreParas(split_paragraphs(rec.text)), <<>>), k)

\* sorted(set(urls)), line 112
RECURSIVE SortStrings(_)
SortStrings(us) ==
    IF us = {} THEN <<>>
    ELSE <<CHOOSE u \in us : \A v \in us \ {u} : StrLess(u, v)>>
         \o SortStrings(us \ {CHOOSE u \in us : \A v \in us \ {u} : StrLess(u, v)})

\* the loop of lines 72-108 over the lines left, acc the files written so far
RECURSIVE TrimLines(_, _, _, _)
TrimLines(lines, k, age_days, acc) ==
    IF lines = <<>> THEN acc
    ELSE IF Head(lines) = BlankLine THEN TrimLines(Tail(lines), k, age_days, acc)
    ELSE TrimLines(Tail(lines), k, age_days,
            [pages_scored |-> Append(acc.pages_scored, ScoreRec(Head(lines), age_days)),
             snippets |-> acc.snippets \o RecSnippets(Head(lines), k),
             keep_urls |-> IF ScoreRec(Head(lines), age_days).keep
                           THEN Append(acc.keep_urls, RecUrl(Head(lines)))
                           ELSE acc.keep_urls])

Range(s) == {s[i] : i \in 1..Len(s)}

TrimFiles_KeepAll(acc) ==
    [pages_scored |-> acc.pages_scored,
     snippets |-> acc.snippets,
     keep_urls |-> SortStrings({ RecUrl(acc.pages_scored[i]) :
                                   i \in 1..Len(acc.pages_scored) })]

\* build_snippets: the three files it leaves
TrimFiles(acc) ==
    [pages_scored |-> acc.pages_scored,
     snippets |-> acc.snippets,
     keep_urls |-> SortStrings(Range(acc.keep_urls))]

build_snippets(lines, k, age_days) ==
    TrimFiles(TrimLines(lines, k, age_days,
                        [pages_scored |-> <<>>, snippets |-> <<>>, keep_urls |-> <<>>]))

\* ---- evidence.py ----

\* page_by_url[url] = p (line 53): a dict keeps the place of a key it has
PutPage(d, url, p) ==
    IF \E i \in 1..Len(d) : d[i].url = url
    THEN [i \in 1..Len(d) |-> IF d[i].url = url THEN [url |-> url, p |-> p] ELSE d[i]]
    ELSE Append(d, [url |-> url, p |-> p])

\* lines 48-53
RECURSIVE PageByUrl(_, _, _)
PageByUrl(ps, keep, d) ==
    IF ps = <<>> THEN d
    ELSE IF RecUrl(Head(ps)) = <<>> \/ RecUrl(Head(ps)) \notin keep
    THEN PageByUrl(Tail(ps), keep, d)
    ELSE PageByUrl(Tail(ps), keep, PutPage(d, RecUrl(Head(ps)), Head(ps)))

\* arr.sort(key=(-score, rank)), line 70: stable
SnipBefore(a, b) == a.score > b.score \/ (a.score = b.score /\ a.rank <= b.rank)

RECURSIVE InsertSnip(_, _)
InsertSnip(sorted, x) ==
    IF sorted = <<>> THEN <<x>>
    ELSE IF SnipBefore(Head(sorted), x) THEN <<Head(sorted)>> \o InsertSnip(Tail(sorted), x)
    ELSE <<x>> \o sorted

RECURSIVE SortSnips(_, _)
SortSnips(todo, sorted) ==
    IF todo = <<>> THEN sorted ELSE SortSnips(Tail(todo), InsertSnip(sorted, Head(todo)))

\* lines 57-67
SnipEntry(s) == [rank |-> s.rank, score |-> s.score, text |-> s.text]

RECURSIVE SnipsOf(_, _)
SnipsOf(snips, url) ==
    IF snips = <<>> THEN <<>>
    ELSE IF Head(snips).url = url
    THEN <<SnipEntry(Head(snips))>> \o SnipsOf(Tail(snips), url)
    ELSE SnipsOf(Tail(snips), url)

Truncate(arr, n) == SubSeq(arr, 1, Min(n, Len(arr)))

\* lines 69-71 and 102
SnipsByUrl(snips, url, max_snippets) ==
    Truncate(SortSnips(SnipsOf(snips, url), <<>>), max_snippets)

\* the longest prefix of whole tokens within n characters
RECURSIVE TakeChars(_, _)
TakeChars(s, n) ==
    IF s = <<>> \/ CharLen(Head(s)) > n THEN <<>>
    ELSE <<Head(s)>> \o TakeChars(Tail(s), n - CharLen(Head(s)))

\* lines 82-84
FullTextOf(t, max_chars) ==
    IF max_chars > 0 /\ StrLen(t) > max_chars
    THEN TakeChars(t, max_chars) \o <<"\n", "\n", "[TRUNCATED]", "\n">>
    ELSE t

FullText(p, max_chars) ==
    FullTextOf(IF p.text_md # <<>> THEN p.text_md ELSE p.text, max_chars)

\* lines 86-103
EvidenceRec(url, p, snips, max_snippets, max_chars) ==
    [url |-> url,
     title |-> p.title,
     headings |-> p.headings,
     page_scores |-> [capability |-> p.capability, engineering |-> p.engineering,
                      fluff |-> p.fluff, freshness |-> p.freshness,
                      total |-> p.total, keep |-> p.keep],
     full_text |-> FullText(p, max_chars),
     snippets |-> SnipsByUrl(snips, url, max_snippets)]

EvidenceOf(d, snips, max_snippets, max_chars) ==
    [i \in 1..Len(d) |-> EvidenceRec(d[i].url, d[i].p, snips, max_snippets, max_chars)]

\* build_evidence_packs: the evidence pack log
build_evidence_packs(scored, snips, keep_lines, max_snippets, max_chars) ==
    EvidenceOf(PageByUrl(scored, Range(keep_lines), <<>>), snips, max_snippets, max_chars)

\* ---- the two stages run one after the other ----

TopKDefault == 25
MaxLines == 3

GoodText == <<"API", " ", "fraud", " ", "x90", "\n", "\n",
              "Kafka", " ", "latency", " ", "x90">>
FluffText == <<"newsletter", " ", "subscribe", " ", "x90">>
ShortText == <<"api">>

PageRec(url, final_url, title, text, text_md) ==
    [url |-> url, final_url |-> final_url, title |-> title, headings |-> <<>>,
     text |-> text, text_md |-> text_md]

\* records of a page log: the url fields differ, two pages redirect to the
\* blog post
PageRecs ==
    { PageRec(BlogPost, BlogPost, <<>>, GoodText, GoodText),
      PageRec(NewsBlog, BlogPost, <<>>, FluffText, <<>>),
      PageRec(NewsBlogPost, BlogPost, <<"API">>, GoodText, <<>>),
      PageRec(BlogHome, BlogHome, <<"API">>, FluffText, FluffText),
      PageRec(L_product, L_product, <<>>, FluffText, FluffText),
      PageRec(L_root, <<>>, <<>>, ShortText, <<>>) }

PageLogs ==
    { log \in UNION { [1..n -> PageRecs \cup {BlankLine}] : n \in 1..MaxLines } :
        \A i, j \in 1..Len(log) :
            (i # j /\ log[i] # BlankLine /\ log[j] # BlankLine) => log[i].url # log[j].url }

TrimInit ==
    /\ pages_jsonl \in PageLogs
    /\ top_k \in {1, TopKDefault}
    /\ clock \in {10, 800}
    /\ pages_scored = <<>>
    /\ snippets = <<>>
    /\ keep_urls = <<>>
    /\ evidence_packs = <<>>
    /\ tpc = "trim"
    /\ CrawlIdle
    /\ CanonIdle
    /\ FetchIdle
    /\ UnitIdle
    /\ RetryIdle
    /\ BatchIdle

Trim ==
    /\ tpc = "trim"
    /\ pages_scored' = build_snippets(pages_jsonl, top_k, clock).pages_scored
    /\ snippets' = build_snippets(pages_jsonl, top_k, clock).snippets
    /\ keep_urls' = build_snippets(pages_jsonl, top_k, clock).keep_urls
    /\ tpc' = "pack"
    /\ UNCHANGED <<pages_jsonl, top_k, clock, evidence_packs,
                   crawlVars, canonVars, fetchVars, unitVars, retryVars, batchVars>>

Pack ==
    /\ tpc = "pack"
    /\ evidence_packs' = build_evidence_packs(pages_scored, snippets, keep_urls,
                                              MaxSnippetsPerUrl, MaxFullTextChars)
    /\ tpc' = "done"
    /\ UNCHANGED <<pages_jsonl, top_k, clock, pages_scored, snippets, keep_urls,
                   crawlVars, canonVars, fetchVars, unitVars, retryVars, batchVars>>

TrimNext == Trim \/ Pack

SpecTrim == TrimInit /\ [][TrimNext]_vars

\* C15: no scored page whose keep is false is in the evidence pack log:
\* every record of the log has a URL of the keep-list and is built from a
\* scored record with keep = true, with or without snippets, also when
\* several scored records have the same URL.
C15_OnlyKept ==
    tpc = "done" =>
        \A i \in 1..Len(evidence_packs) :
            /\ evidence_packs[i].url \in Range(keep_urls)
            /\ evidence_packs[i].page_scores.keep


\* the records of the page log, its blank lines left out
NonBlank(log) == SelectSeq(log, LAMBDA l : l # BlankLine)

\* `rec.get("final_url") or rec.get("url")` of a scored record
UrlOfRecord(rec) == IF rec.final_url # <<>> THEN rec.final_url ELSE rec.url

\* C22: build_snippets writes to the scored page log one record for every
\* non-blank line of the page log, in order, with the fields of the input
\* record and the scores, whatever its keep; the keep-list holds exactly the
\* URLs of the scored records whose keep is true, each once, sorted.
C22_ScoredAndKept ==
    tpc # "trim" =>
        /\ Len(pages_scored) = Len(NonBlank(pages_jsonl))
        /\ \A i \in 1..Len(pages_scored) :
               /\ \A f \in DOMAIN NonBlank(pages_jsonl)[i] :
                      pages_scored[i][f] = NonBlank(pages_jsonl)[i][f]
               /\ pages_scored[i].keep \in BOOLEAN
        /\ Range(keep_urls) =
               { UrlOfRecord(pages_scored[i]) :
                   i \in { k \in 1..Len(pages_scored) : pages_scored[k].keep } }
        /\ \A i \in 1..(Len(keep_urls) - 1) : StrLess(keep_urls[i], keep_urls[i + 1])

\* a page log with a blank line and two records of one URL, one kept and one
\* not: both are in the scored log, the URL is in the keep-list
C22_Witness ==
    /\ tpc = "pack"
    /\ \E i \in 1..Len(pages_jsonl) : pages_jsonl[i] = BlankLine
    /\ \E i \in 1..Len(pages_scored) : \E k \in 1..Len(pages_scored) :
           /\ pages_scored[i].keep
           /\ ~pages_scored[k].keep
           /\ UrlOfRecord(pages_scored[i]) = UrlOfRecord(pages_scored[k])
           /\ UrlOfRecord(pages_scored[i]) \in Range(keep_urls)

----------------------------------------------------------------------------
(* summarize_xlsx_openai.py: call_openai_with_retries.                      *)
(*                                                                          *)
(* Times are in units of 0.00001 s.  The answers of the service to the      *)
(* successive calls of call_openai are a script fixed when the function is  *)
(* called; its last answer repeats.                                         *)

MaxRetries == 8

\* backoff = 1.0 (line 103), min(backoff * 1.8, 20) (lines 134, 146)
BackoffStart == 100000
BackoffCap == 2000000
\* random.uniform(0, 0.25): its least value and a value just below 0.25
Jitters == {0, 24999}

\* what one call of call_openai does: it returns a text, or raises
Returns == [exc |-> "none", code |-> 200]
HTTPError(code) == [exc |-> "HTTPError", code |-> code]
Raises(exc) == [exc |-> exc, code |-> 0]

NonRetryableCodes == {400, 401, 403, 404, 422}
RetryableCodes == {429, 500, 502, 503, 504}
\* statuses outside both lists
OtherCodes == {402, 409, 501, 529}

\* URLError: DNS, refused connection, TLS; TimeoutError: socket timeout;
\* RuntimeError: no API key, or an empty model output (lines 56, 90);
\* ConnectionResetError: the connection breaks while the answer is read;
\* JSONDecodeError: the body is not JSON (line 83)
Answers ==
    {Returns}
    \cup {HTTPError(c) : c \in NonRetryableCodes \cup RetryableCodes \cup OtherCodes}
    \cup {Raises(e) : e \in {"URLError", "TimeoutError", "RuntimeError",
                             "ConnectionResetError", "JSONDecodeError"}}

Repeat(a, n) == [i \in 1..n |-> a]

Scripts ==
    {<<a>> : a \in Answers}
    \cup {<<a, b>> : a, b \in Answers}
    \cup {Repeat(a, n) \o <<b>> :
            a \in {HTTPError(429), HTTPError(503), Raises("URLError"), Raises("TimeoutError")},
            n \in 3..MaxRetries,
            b \in {Returns, HTTPError(400), HTTPError(501)}}

\* the answer to the i-th call
Answer(sc, i) == sc[Min(i, Len(sc))]

\* the bug of retrying without a bound
InRange_Forever(a, n) == TRUE

\* for attempt in range(1, retries + 1), line 106
InRange(a, n) == a <= n

\* the except clauses that sleep and go on: lines 128-135 and 140-146
Retryable(a) ==
    \/ a.exc = "HTTPError" /\ a.code \notin NonRetryableCodes /\ a.code \in RetryableCodes
    \/ a.exc \in {"URLError", "TimeoutError"}

\* lines 134, 146
NextBackoff(b) == Min((b * 18) \div 10, BackoffCap)

Running == [status |-> "running", exc |-> "none", code |-> 0]

RetryInit ==
    /\ retries \in 0..MaxRetries
    /\ script \in Scripts
    /\ attempt = 1
    /\ backoff = BackoffStart
    /\ sleeps = <<>>
    /\ callLog = <<>>
    /\ rout = Running
    /\ CrawlIdle
    /\ CanonIdle
    /\ FetchIdle
    /\ UnitIdle
    /\ TrimIdle
    /\ BatchIdle

\* an iteration of the loop is entered (line 106) and call_openai answers
Calling(a) ==
    /\ rout.status = "running"
    /\ InRange(attempt, retries)
    /\ a = Answer(script, attempt)
    /\ callLog' = Append(callLog, a)

\* line 108: call_openai returns
AttemptReturns ==
    /\ Calling(Returns)
    /\ rout' = [status |-> "returned", exc |-> "none", code |-> 200]
    /\ UNCHANGED <<retries, script, attempt, backoff, sleeps>>
    /\ UNCHANGED <<crawlVars, canonVars, fetchVars, unitVars, trimVars, batchVars>>

\* lines 124-126, 137-138, 148-150, and the exceptions no clause catches:
\* the exception leaves the function
AttemptRaises ==
    \E a \in Answers :
        /\ a # Returns
        /\ ~Retryable(a)
        /\ Calling(a)
        /\ rout' = [status |-> "raised", exc |-> a.exc, code |-> a.code]
        /\ UNCHANGED <<retries, script, attempt, backoff, sleeps>>
        /\ UNCHANGED <<crawlVars, canonVars, fetchVars, unitVars, trimVars, batchVars>>

\* lines 128-135 and 140-146: sleep, raise the backoff, next iteration
AttemptRetries ==
    \E a \in Answers, jitter \in Jitters :
        /\ Retryable(a)
        /\ Calling(a)
        /\ sleeps' = Append(sleeps, backoff + jitter)
        /\ backoff' = NextBackoff(backoff)
        /\ attempt' = attempt + 1
        /\ UNCHANGED <<retries, script, rout>>
        /\ UNCHANGED <<crawlVars, canonVars, fetchVars, unitVars, trimVars, batchVars>>

\* lines 152-154: the loop is over
GiveUp ==
    /\ rout.status = "running"
    /\ ~InRange(attempt, retries)
    /\ rout' = [status |-> "raised", exc |-> "RuntimeError", code |-> 0]
    /\ UNCHANGED <<retries, script, attempt, backoff, sleeps, callLog>>
    /\ UNCHANGED <<crawlVars, canonVars, fetchVars, unitVars, trimVars, batchVars>>

RetryNext == AttemptReturns \/ AttemptRaises \/ AttemptRetries \/ GiveUp

\* the function runs on: a sleep ends, a call answers or times out
SpecRetry == RetryInit /\ [][RetryNext]_vars /\ WF_vars(RetryNext)

\* the answers received so far were all retryable failures but the last one
FailuresThenSuccess ==
    /\ callLog # <<>>
    /\ callLog[Len(callLog)] = Returns
    /\ \A i \in 1..(Len(callLog) - 1) :
          \/ callLog[i].exc = "HTTPError" /\ callLog[i].code \in {429, 500, 502, 503, 504}
          \/ callLog[i].exc \in {"URLError", "TimeoutError"}

\* n failures then a success give the result after n sleeps, each longer than
\* the one before until the cap is reached
BackoffGrows ==
    (rout.status # "running" /\ FailuresThenSuccess) =>
        /\ rout.status = "returned"
        /\ Len(sleeps) = Len(callLog) - 1
        /\ \A i \in 2..Len(sleeps) : sleeps[i - 1] < 2000000 => sleeps[i] > sleeps[i - 1]
        /\ callLog = <<HTTPError(503), HTTPError(503), HTTPError(503), Returns>> =>
              Len(sleeps) = 3 /\ sleeps[1] < sleeps[2] /\ sleeps[2] < sleeps[3]

\* C16: n retryable failures in a row followed by a success (n < retries)
\* return the result after exactly n sleeps; each sleep is longer than the
\* one before until the cap is reached, and no sleep is longer than the cap
\* of 20 s; three 503 and then a 200 give a result after 3 growing sleeps.
C16_Backoff ==
    /\ BackoffGrows
    /\ (rout.status # "running" /\ FailuresThenSuccess) =>
          \A i \in 1..Len(sleeps) : sleeps[i] <= 2000000

\* the i-th call's failure left the function at once: no sleep, no call after it
Surfaced(i) ==
    /\ i = Len(callLog)
    /\ Len(sleeps) = i - 1
    /\ rout.status = "raised"
    /\ rout.exc = callLog[i].exc
    /\ rout.code = callLog[i].code

\* the i-th call's failure was followed by a sleep, and by another call if
\* attempts remained
Retried(i) ==
    /\ Len(sleeps) >= i
    /\ (i < retries /\ rout.status # "running") => Len(callLog) > i

\* C17: an HTTP error is surfaced at once (no sleep, no further call) iff its
\* status is a 4xx other than 429; every 429, every 5xx and every network or
\* timeout error is retried with backoff while attempts remain.
C17_Classification ==
    \A i \in 1..Len(callLog) :
        /\ callLog[i].exc = "HTTPError" =>
              (Surfaced(i) <=> (callLog[i].code \in 400..499 /\ callLog[i].code # 429))
        /\ (callLog[i].exc = "HTTPError" /\ callLog[i].code \in {429} \cup 500..599) =>
              Retried(i)
        /\ callLog[i].exc \in {"URLError", "TimeoutError", "ConnectionResetError"} =>
              Retried(i)

\* C18: at most `retries` calls are made and the function ends; when every
\* call fails with a retryable error the function raises, it returns no value.
C18_Bounded ==
    /\ [](Len(callLog) <= retries)
    /\ <>(rout.status # "running")
    /\ [](rout.status = "returned" => (callLog # <<>> /\ callLog[Len(callLog)] = Returns))
    /\ []((/\ rout.status # "running"
           /\ Len(callLog) = retries
           /\ \A i \in 1..Len(callLog) : callLog[i] = HTTPError(503))
          => (rout.status = "raised" /\ rout.exc = "RuntimeError"))

\* C18 witness: six calls, six 503, six sleeps, and the RuntimeError of the
\* end of the loop.
C18_Witness ==
    /\ retries = 6
    /\ Len(callLog) = 6
    /\ \A i \in 1..6 : callLog[i] = HTTPError(503)
    /\ Len(sleeps) = 6
    /\ rout.status = "raised"
    /\ rout.exc = "RuntimeError"

-----------------------------------------------------------------------------
(* summarize_xlsx (src/ci/summarize_xlsx_openai.py:245-370).  The sheet is   *)
(* a sequence of rows, each with a text cell and an output cell; the saved   *)
(* document is the sheet as wb.save last wrote it.  A cell is None, a string *)
(* of white space, the text of a row, or a summary; a summary names the row  *)
(* whose text it was computed from (0 for one present before the run).  The  *)
(* service decides whether summarize_row returns or raises.  In pool mode    *)
(* the threads of the ThreadPoolExecutor take the submitted jobs in the      *)
(* order of submission, at most `workers` at a time.                         *)

MaxRows == 5
SaveEveryDefault == 10

NoneCell == [kind |-> "none", of |-> 0]
BlankCell == [kind |-> "blank", of |-> 0]
TextCell(r) == [kind |-> "text", of |-> r]
SummaryOf(txt) == [kind |-> "summary", of |-> txt.of]
OldSummary == [kind |-> "summary", of |-> 0]

\* `v is None or not str(v).strip()` (lines 217-220)
IsEmptyCell(v) == v.kind \in {"none", "blank"}

\* the jobs of the rows r..max_row (lines 210-224)
RECURSIVE build_jobs(_, _)
build_jobs(sheet, r) ==
    IF r > Len(sheet) THEN <<>>
    ELSE IF ~IsEmptyCell(sheet[r].out) THEN build_jobs(sheet, r + 1)
    ELSE IF IsEmptyCell(sheet[r].text) THEN build_jobs(sheet, r + 1)
    ELSE <<[r |-> r, txt |-> sheet[r].text]>> \o build_jobs(sheet, r + 1)

\* summarize_row: the stripped answer of the service, or its exception
summarize_row(txt, answer) ==
    IF answer = "ok" THEN [status |-> "returned", value |-> SummaryOf(txt)]
    ELSE [status |-> "raised"]

\* the accesses summarize_row makes to the workbook: it is given the text of
\* the job only (lines 319-323) and builds a prompt from it
WorkbookUse_Writes(job) == <<[thread |-> "worker", op |-> "write", r |-> job.r]>>
WorkbookUse(job) == <<>>

write_row_Text(sheet, r, summary) == [sheet EXCEPT ![r].text = summary]
write_row(sheet, r, summary) == [sheet EXCEPT ![r].out = summary]

\* `save_every and (completed % save_every == 0)`
CheckpointDue(n, every) == every # 0 /\ n % every = 0

max_inflight_Wide(w) == w * 3
max_inflight(w) == IF 2 > w * 2 THEN 2 ELSE w * 2

WriteOp(r) == [thread |-> "main", op |-> "write", r |-> r]
SaveOp == [thread |-> "main", op |-> "save", r |-> 0]

\* the accesses of one applied result: write_row, then the checkpoint if due
ApplyOps(r, n, every) ==
    IF CheckpointDue(n, every) THEN <<WriteOp(r), SaveOp>> ELSE <<WriteOp(r)>>

RowKinds ==
    { [text |-> TextCell(0), out |-> NoneCell],
      [text |-> TextCell(0), out |-> BlankCell],
      [text |-> TextCell(0), out |-> OldSummary],
      [text |-> NoneCell, out |-> NoneCell],
      [text |-> BlankCell, out |-> OldSummary] }

\* the text of row r is its own
OwnText(rows) ==
    [r \in 1..Len(rows) |->
        IF rows[r].text.kind = "text"
        THEN [rows[r] EXCEPT !.text = TextCell(r)]
        ELSE rows[r]]

AllJobs(n) == [r \in 1..n |-> [text |-> TextCell(r), out |-> NoneCell]]

Sheets ==
    { AllJobs(n) : n \in 0..MaxRows }
        \cup { OwnText(<<a, b>>) : a \in RowKinds, b \in RowKinds }

WorkerCounts == {0, 1, 2, 3}
SaveEvery == {0, 2, SaveEveryDefault}
StartRows == {1, 2}

JobIds == 1..Len(jobs)
InState(st) == { j \in JobIds : futures[j] = st }
\* the queue of the executor is first in, first out
NextPending == CHOOSE j \in InState("pending") : \A k \in InState("pending") : j <= k
InflightDone(st) == { i \in 1..Len(inflight) : futures[inflight[i]] = st }
Without(s, i) == SubSeq(s, 1, i - 1) \o SubSeq(s, i + 1, Len(s))

BatchInit ==
    /\ workers \in WorkerCounts
    /\ save_every \in SaveEvery
    /\ start_row \in StartRows
    /\ ws \in Sheets
    /\ disk = ws
    /\ jobs = <<>>
    /\ futures = <<>>
    /\ inflight = <<>>
    /\ idx = 0
    /\ completed = 0
    /\ wbLog = <<>>
    /\ runLog = <<>>
    /\ bpc = "load"
    /\ CrawlIdle
    /\ CanonIdle
    /\ FetchIdle
    /\ UnitIdle
    /\ TrimIdle
    /\ RetryIdle

\* lines 268-275: no job, the workbook is saved and the function returns
LoadNoJobs ==
    /\ bpc = "load"
    /\ build_jobs(ws, start_row) = <<>>
    /\ disk' = ws
    /\ wbLog' = Append(wbLog, SaveOp)
    /\ bpc' = "returned"
    /\ UNCHANGED <<workers, save_every, start_row, ws, jobs, futures, inflight,
                   idx, completed, runLog>>
    /\ UNCHANGED <<crawlVars, canonVars, fetchVars, unitVars, trimVars, retryVars>>

\* lines 268-288: the sequential loop is entered
LoadSequential ==
    /\ bpc = "load"
    /\ build_jobs(ws, start_row) # <<>>
    /\ workers <= 1
    /\ jobs' = build_jobs(ws, start_row)
    /\ futures' = [j \in 1..Len(jobs') |-> "none"]
    /\ bpc' = "sequential"
    /\ UNCHANGED <<workers, save_every, start_row, ws, disk, inflight, idx,
                   completed, wbLog, runLog>>
    /\ UNCHANGED <<crawlVars, canonVars, fetchVars, unitVars, trimVars, retryVars>>

\* lines 289-307: one iteration whose summarize_row returns
SequentialRowOk ==
    /\ bpc = "sequential"
    /\ completed < Len(jobs)
    /\ ws' = write_row(ws, jobs[completed + 1].r,
                       summarize_row(jobs[completed + 1].txt, "ok").value)
    /\ completed' = completed + 1
    /\ disk' = IF CheckpointDue(completed', save_every) THEN ws' ELSE disk
    /\ wbLog' = wbLog \o ApplyOps(jobs[completed + 1].r, completed', save_every)
    /\ runLog' = Append(runLog, completed + 1)
    /\ futures' = [futures EXCEPT ![completed + 1] = "ok"]
    /\ UNCHANGED <<workers, save_every, start_row, jobs, inflight, idx, bpc>>
    /\ UNCHANGED <<crawlVars, canonVars, fetchVars, unitVars, trimVars, retryVars>>

\* lines 289-297: summarize_row raises; nothing catches it
SequentialRowRaises ==
    /\ bpc = "sequential"
    /\ completed < Len(jobs)
    /\ summarize_row(jobs[completed + 1].txt, "error").status = "raised"
    /\ runLog' = Append(runLog, completed + 1)
    /\ futures' = [futures EXCEPT ![completed + 1] = "failed"]
    /\ bpc' = "raised"
    /\ UNCHANGED <<workers, save_every, start_row, ws, disk, jobs, inflight,
                   idx, completed, wbLog>>
    /\ UNCHANGED <<crawlVars, canonVars, fetchVars, unitVars, trimVars, retryVars>>

\* lines 309-314: the loop is over
SequentialDone ==
    /\ bpc = "sequential"
    /\ completed = Len(jobs)
    /\ disk' = ws
    /\ wbLog' = Append(wbLog, SaveOp)
    /\ bpc' = "returned"
    /\ UNCHANGED <<workers, save_every, start_row, ws, jobs, futures, inflight,
                   idx, completed, runLog>>
    /\ UNCHANGED <<crawlVars, canonVars, fetchVars, unitVars, trimVars, retryVars>>

\* lines 268-332: the pool is created and the first jobs are submitted
LoadPool ==
    /\ bpc = "load"
    /\ build_jobs(ws, start_row) # <<>>
    /\ workers > 1
    /\ jobs' = build_jobs(ws, start_row)
    /\ idx' = Min(Len(jobs'), max_inflight(workers))
    /\ inflight' = [i \in 1..idx' |-> i]
    /\ futures' = [j \in 1..Len(jobs') |-> IF j <= idx' THEN "pending" ELSE "none"]
    /\ bpc' = "pool"
    /\ UNCHANGED <<workers, save_every, start_row, ws, disk, completed, wbLog,
                   runLog>>
    /\ UNCHANGED <<crawlVars, canonVars, fetchVars, unitVars, trimVars, retryVars>>

\* a free thread of the executor takes the oldest submitted job
WorkerStarts ==
    /\ bpc \in {"pool", "shutdown"}
    /\ InState("pending") # {}
    /\ Cardinality(InState("running")) < workers
    /\ futures' = [futures EXCEPT ![NextPending] = "running"]
    /\ runLog' = Append(runLog, NextPending)
    /\ UNCHANGED <<workers, save_every, start_row, ws, disk, jobs, inflight,
                   idx, completed, wbLog, bpc>>
    /\ UNCHANGED <<crawlVars, canonVars, fetchVars, unitVars, trimVars, retryVars>>

\* summarize_row ends in a thread of the executor
WorkerEnds(j, answer) ==
    /\ bpc \in {"pool", "shutdown"}
    /\ futures[j] = "running"
    /\ futures' = [futures EXCEPT ![j] =
           IF summarize_row(jobs[j].txt, answer).status = "returned"
           THEN "ok" ELSE "failed"]
    /\ wbLog' = wbLog \o WorkbookUse(jobs[j])
    /\ UNCHANGED <<workers, save_every, start_row, ws, disk, jobs, inflight,
                   idx, completed, runLog, bpc>>
    /\ UNCHANGED <<crawlVars, canonVars, fetchVars, unitVars, trimVars, retryVars>>

WorkerReturns == \E j \in JobIds : WorkerEnds(j, "ok")
WorkerRaises == \E j \in JobIds : WorkerEnds(j, "error")

\* lines 334-362: as_completed yields a future that holds a result; the
\* result is written, the checkpoint made, the next job submitted
ApplyResult(i) ==
    /\ bpc = "pool"
    /\ i \in InflightDone("ok")
    /\ ws' = write_row(ws, jobs[inflight[i]].r,
                       summarize_row(jobs[inflight[i]].txt, "ok").value)
    /\ completed' = completed + 1
    /\ disk' = IF CheckpointDue(completed', save_every) THEN ws' ELSE disk
    /\ wbLog' = wbLog \o ApplyOps(jobs[inflight[i]].r, completed', save_every)
    /\ IF idx < Len(jobs)
       THEN /\ futures' = [futures EXCEPT ![idx + 1] = "pending"]
            /\ inflight' = Append(Without(inflight, i), idx + 1)
            /\ idx' = idx + 1
       ELSE /\ inflight' = Without(inflight, i)
            /\ UNCHANGED <<futures, idx>>
    /\ UNCHANGED <<workers, save_every, start_row, jobs, runLog, bpc>>
    /\ UNCHANGED <<crawlVars, canonVars, fetchVars, unitVars, trimVars, retryVars>>

\* lines 334-345: as_completed yields a future that holds an exception; the
\* workbook is saved and the exception raised again, which leaves the `with`
\* block: the executor is shut down and waited for
ApplyFailure(i) ==
    /\ bpc = "pool"
    /\ i \in InflightDone("failed")
    /\ inflight' = Without(inflight, i)
    /\ disk' = ws
    /\ wbLog' = Append(wbLog, SaveOp)
    /\ bpc' = "shutdown"
    /\ UNCHANGED <<workers, save_every, start_row, ws, jobs, futures, idx,
                   completed, runLog>>
    /\ UNCHANGED <<crawlVars, canonVars, fetchVars, unitVars, trimVars, retryVars>>

Consume == \E i \in 1..Len(inflight) : ApplyResult(i)
ConsumeFailure == \E i \in 1..Len(inflight) : ApplyFailure(i)

\* the executor has run every job submitted to it: the exception reaches the
\* caller
Propagate ==
    /\ bpc = "shutdown"
    /\ InState("pending") = {}
    /\ InState("running") = {}
    /\ bpc' = "raised"
    /\ UNCHANGED <<workers, save_every, start_row, ws, disk, jobs, futures,
                   inflight, idx, completed, wbLog, runLog>>
    /\ UNCHANGED <<crawlVars, canonVars, fetchVars, unitVars, trimVars, retryVars>>

\* lines 334, 366-370: no future is in flight, the final save
PoolDone ==
    /\ bpc = "pool"
    /\ inflight = <<>>
    /\ disk' = ws
    /\ wbLog' = Append(wbLog, SaveOp)
    /\ bpc' = "returned"
    /\ UNCHANGED <<workers, save_every, start_row, ws, jobs, futures, inflight,
                   idx, completed, runLog>>
    /\ UNCHANGED <<crawlVars, canonVars, fetchVars, unitVars, trimVars, retryVars>>

BatchNext ==
    \/ LoadNoJobs
    \/ LoadSequential
    \/ SequentialRowOk
    \/ SequentialRowRaises
    \/ SequentialDone
    \/ LoadPool
    \/ WorkerStarts
    \/ WorkerReturns
    \/ WorkerRaises
    \/ Consume
    \/ ConsumeFailure
    \/ Propagate
    \/ PoolDone

SpecBatch == BatchInit /\ [][BatchNext]_vars

\* C19: for any workers setting, a failing job ends the batch with its error:
\* the function does not return normally, no job is pending or running once
\* the error has reached the caller, and the document saved at that point
\* holds the summary of every job written to the sheet before the failure.
C19_FailureSaves ==
    /\ bpc = "returned" => InState("failed") = {}
    /\ bpc = "raised" =>
        /\ InState("failed") # {}
        /\ InState("pending") = {}
        /\ InState("running") = {}
        /\ \A r \in 1..Len(ws) :
               ws[r].out.kind = "summary" => disk[r].out = ws[r].out

\* a step of a thread of the executor: a job begins or ends
WorkerStep ==
    \E j \in JobIds :
        /\ futures'[j] # futures[j]
        /\ futures'[j] \in {"running", "ok", "failed"}

RowsChanged == { r \in 1..Len(ws) : ws'[r] # ws[r] }
Consumed == { i \in 1..Len(inflight) : \A k \in 1..Len(inflight') : inflight'[k] # inflight[i] }

\* C20: in pool mode every access to the workbook (cell write, save) is made
\* by the coordinating thread; a step of a worker thread leaves the sheet and
\* the saved document as they are; a step that writes the sheet writes the
\* output cell of one row, the row of the one completed result it takes out
\* of `inflight`, and a save writes the sheet as that thread left it.
C20_SingleWriter ==
    [][(bpc \in {"pool", "shutdown"}) =>
          (/\ \A i \in (Len(wbLog) + 1)..Len(wbLog') : wbLog'[i].thread = "main"
           /\ (WorkerStep => (ws' = ws /\ disk' = disk /\ wbLog' = wbLog))
           /\ ((ws' # ws) =>
                  (/\ Cardinality(RowsChanged) = 1
                   /\ Cardinality(Consumed) = 1
                   /\ \A i \in Consumed :
                          /\ futures[inflight[i]] = "ok"
                          /\ RowsChanged = {jobs[inflight[i]].r}))
           /\ ((disk' # disk) => (disk' = ws')))]_vars

\* the coordinating thread has written a result and saved the workbook while
\* a worker thread is running summarize_row and another result is waiting
C20_Witness ==
    /\ bpc = "pool"
    /\ \E i \in 1..Len(wbLog) : wbLog[i].op = "write"
    /\ \E i \in 1..Len(wbLog) : wbLog[i].op = "save"
    /\ InState("running") # {}
    /\ InflightDone("ok") # {}

\* C21: in pool mode at most `workers` calls of summarize_row are executing,
\* the jobs submitted and not yet applied number at most max(2, 2 * workers),
\* and after the first window a job is submitted only by the step that takes
\* one completed result out of `inflight` and applies it, one job per result.
C21_Bounded ==
    [][(bpc' \in {"pool", "shutdown"}) =>
          (/\ Cardinality({ j \in 1..Len(jobs') : futures'[j] = "running" }) <= workers'
           /\ Len(inflight') <= (IF workers' < 1 THEN 2 ELSE 2 * workers')
           /\ ((bpc = "pool" /\ idx' # idx) =>
                  (/\ idx' = idx + 1
                   /\ completed' = completed + 1
                   /\ Cardinality(Consumed) = 1
                   /\ \A i \in Consumed : futures[inflight[i]] = "ok"))
           /\ ((bpc = "shutdown") => (idx' = idx)))]_vars

\* every thread of the pool is busy, the window is full, and a job beyond the
\* first window has been submitted
C21_Witness ==
    /\ bpc = "pool"
    /\ idx > max_inflight(workers)
    /\ Cardinality(InState("running")) = workers
    /\ Len(inflight) = max_inflight(workers)

\* the rows build_jobs is to return for a sheet: at or after start_row, output
\* cell empty, text cell not empty
JobRows(sheet, start) ==
    { r \in start..Len(sheet) :
        IsEmptyCell(sheet[r].out) /\ ~IsEmptyCell(sheet[r].text) }

WrittenRows(log) == { log[i].r : i \in { k \in 1..Len(log) : log[k].op = "write" } }

\* C30: the jobs are the rows at or after start_row whose output cell is
\* empty and whose text cell is not, in row order; a step changes the sheet
\* only in the output cell of a job row not written before, which gets the
\* summary of that row's own text; the text cells and the number of rows
\* stay; when the function returns, every job row holds its summary,
\* completed is the number of jobs and the saved document is the sheet.
C30_OnlyJobRows ==
    [][/\ Len(ws') = Len(ws)
       /\ ((jobs' # jobs) =>
              (/\ { jobs'[j].r : j \in 1..Len(jobs') } = JobRows(ws, start_row)
               /\ \A j \in 1..Len(jobs') : jobs'[j].txt = ws[jobs'[j].r].text
               /\ \A j \in 1..(Len(jobs') - 1) : jobs'[j].r < jobs'[j + 1].r))
       /\ \A r \in 1..Len(ws) :
              (ws'[r] # ws[r]) =>
                  (/\ r \in { jobs[j].r : j \in 1..Len(jobs) }
                   /\ r \in JobRows(ws, start_row)
                   /\ r \notin WrittenRows(wbLog)
                   /\ ws'[r].text = ws[r].text
                   /\ ws'[r].out = SummaryOf(ws[r].text)
                   /\ ws'[r].out.of = r)
       /\ ((bpc' = "returned") =>
              (/\ completed' = Len(jobs')
               /\ disk' = ws'
               /\ \A j \in 1..Len(jobs') :
                      ws'[jobs'[j].r].out = SummaryOf(jobs'[j].txt)))]_vars

\* a run of the pool has returned; it started at row 2, leaving row 1 (a text
\* and no summary) alone, and applied the results out of row order
C30_Witness ==
    /\ bpc = "returned"
    /\ workers > 1
    /\ start_row = 2
    /\ Len(ws) > 2
    /\ IsEmptyCell(ws[1].out) /\ ~IsEmptyCell(ws[1].text)
    /\ completed = Len(jobs)
    /\ \E i \in 1..Len(wbLog) : \E k \in 1..Len(wbLog) :
           /\ i < k
           /\ wbLog[i].op = "write"
           /\ wbLog[k].op = "write"
           /\ wbLog[i].r > wbLog[k].r

-----------------------------------------------------------------------------
(* The snippets build_snippets writes for one page (trim.py:89-100), as a    *)
(* function of the page's text and of top_k.                                *)

MaxParas == 4

\* paragraphs of 80 characters or more, some with the same score
RankParas ==
    { <<"api", " ", "x90">>, <<"fraud", " ", "x90">>, <<"kafka", " ", "x90">>,
      <<"latency", " ", "x90">>, <<"newsletter", " ", "x90">>, <<"x90">> }

RECURSIVE JoinParas(_)
JoinParas(ps) ==
    IF ps = <<>> THEN <<>>
    ELSE IF Len(ps) = 1 THEN Head(ps)
    ELSE Head(ps) \o <<"\n", "\n">> \o JoinParas(Tail(ps))

RankTexts ==
    { JoinParas(ps) : ps \in UNION { [1..n -> RankParas] : n \in 0..MaxParas } }

TopKs == {0, 1, 2, 3, TopKDefault}

RankInit ==
    /\ fn = "snippets"
    /\ args \in [text : RankTexts, top_k : TopKs]
    /\ ret = <<>>
    /\ returned = FALSE
    /\ CrawlIdle
    /\ CanonIdle
    /\ FetchIdle
    /\ StagesIdle

\* lines 79-100 for one record of the page log
RankCall ==
    /\ fn = "snippets"
    /\ ~returned
    /\ ret' = RecSnippets(PageRec(BlogPost, BlogPost, <<>>, args.text, args.text),
                          args.top_k)
    /\ returned' = TRUE
    /\ UNCHANGED <<fn, args, crawlVars, canonVars, fetchVars, stageVars>>

RankNext == RankCall

SpecRank == RankInit /\ [][RankNext]_vars

\* the paragraph score of the claim, in tenths
ParaScore(p) ==
    10 * TermCount(tokenize(p), CAPABILITY_TERMS)
        + 12 * TermCount(tokenize(p), ENGINEERING_SIGNALS)
        - 14 * TermCount(tokenize(p), FLUFF_TERMS)

\* paragraph i is ranked before paragraph j
RankedBefore(paras, i, j) ==
    \/ ParaScore(paras[i]) > ParaScore(paras[j])
    \/ (ParaScore(paras[i]) = ParaScore(paras[j]) /\ i < j)

\* the place of paragraph i in the ranking
PlaceOf(paras, i) == 1 + Cardinality({ j \in 1..Len(paras) : RankedBefore(paras, j, i) })

\* C26: for a page of n paragraphs the snippets are min(top_k, n), with the
\* ranks 1, 2, ... in this order; the snippet of rank r is the paragraph that
\* r - 1 paragraphs precede in the order "higher score first, equal scores in
\* text order", with its score capability + engineering - 1.4 * fluff; so the
\* scores never increase along the ranks.
C26_Ranked ==
    returned =>
        /\ Len(ret) = Min(args.top_k, Len(split_paragraphs(args.text)))
        /\ \A r \in 1..Len(ret) :
               /\ ret[r].rank = r
               /\ \E i \in 1..Len(split_paragraphs(args.text)) :
                      /\ PlaceOf(split_paragraphs(args.text), i) = r
                      /\ ret[r].text = split_paragraphs(args.text)[i]
                      /\ ret[r].score = ParaScore(split_paragraphs(args.text)[i])
        /\ \A r \in 1..(Len(ret) - 1) : ret[r].score >= ret[r + 1].score

\* four paragraphs, the second and the fourth with the best score, the first
\* and the third with a lower one, top_k = 3: the ranks are 2, 4, 1
C26_Witness ==
    /\ returned
    /\ args.top_k = 3
    /\ args.text = JoinParas(<< <<"api", " ", "x90">>, <<"kafka", " ", "x90">>,
                                <<"fraud", " ", "x90">>, <<"kafka", " ", "x90">> >>)
    /\ Len(ret) = 3
    /\ ret[1].text = <<"kafka", " ", "x90">>
    /\ ret[3].text = <<"api", " ", "x90">>
    /\ ret[2].score = 12
    /\ ret[3].score = 10

=============================================================================
